---- MODULE Spec2Model ----
(***************************************************************************)
(* A model of pytest-samples: the history store (database/_session.py),    *)
(* the list tool move_idx_to_end (tools/_collectiontools.py) and the       *)
(* stateful brokers (plugin/_broker_stateful.py).                          *)
(*                                                                         *)
(* Rows are identified by their unique keys: a TestFile by its path, a     *)
(* TestItem by (file, lineno, testname).  The surrogate integer ids are    *)
(* not modelled; an item's `file` field holds the path of the file row it  *)
(* references (the foreign key file_id).                                   *)
(***************************************************************************)
EXTENDS Integers, Sequences, FiniteSets, TLC

VARIABLES
    store,      \* the committed content of the database (in SpecRun: of the
                \*   database of the run under the immediate strategy)
    call,       \* SpecSession: the Session call that has just returned or
                \*   raised (op, arguments, the store before it, the outcome),
                \*   NoCall once the caller has taken the outcome
    mv,         \* SpecMove: one call of move_idx_to_end: its arguments, and
                \*   after the call the list src and the exception raised
    phase,      \* the broker's position in the run: "collect" before
                \*   pytest_collection_modifyitems, "run" while reports
                \*   arrive; once _session_finished is set, "finished"
                \*   when _sessionfinish returned and "failed" when it raised
    config,     \* the broker's flags _randomize, _hash_testfiles,
                \*   _no_pruning, _reset_on_saturation
    items,      \* pytest's list of collected items, each one its location
    num_tests,  \* _num_tests, NoCount while it is None
    now,        \* the clock read by arrow.utcnow()
    cmp,        \* what the collection did: the store before it, the list
                \*   after the shuffle, the result of the comparison and the
                \*   store right after the comparison
    num_passed_tests,   \* ImmediateStatefulSamplesBroker._num_passed_tests
    num_failed_tests,   \* ImmediateStatefulSamplesBroker._num_failed_tests
    lazyStore,          \* the database of the run under the lazy strategy
    passed_tests,       \* LazyStatefulSamplesBroker._passed_tests
    failed_tests,       \* LazyStatefulSamplesBroker._failed_tests
    bulkCall,   \* the bulk_add_update_remove call of the lazy session finish
    reports,    \* the outcomes reported so far that were not ignored
    exitstatus, \* the exit status given to pytest_sessionfinish
    warned,     \* the states _decide_result has warned about
    governor,   \* SpecTimeout: SamplesBrokerBase._soft_timeout, _start_time
                \*   and _past_timeout, the clock, and for each item given
                \*   to pytest_runtest_protocol whether it was marked skip
    ops,        \* the engine and Session calls each broker has made since
                \*   the end of the collection
    engine_disposed,    \* EngineBase._disposed
    session,    \* SpecEngine: the Session object obtained from the engine:
                \*   "none" before new_session, "new" while _session is
                \*   None, "entered" after __enter__, "exited" after __exit__
    setup       \* SpecSetup: the position and the locals of _setup_engine
                \*   and _setup_tables, the state of the database file and
                \*   the calls made on the engine

sessionVars == <<store, call>>

brokerVars ==
    <<phase, config, items, num_tests, now, cmp, num_passed_tests,
      num_failed_tests, lazyStore, passed_tests, failed_tests, bulkCall,
      reports, exitstatus, warned, ops, governor>>

engineVars == <<engine_disposed, session, setup>>

\* What the Session operations leave alone.
outsideSession == <<mv, brokerVars, engineVars>>

vars == <<store, call, mv, brokerVars, engineVars>>

----------------------------------------------------------------------------
(* Bounds of the model *)

\* The largest add_update and try_delete sets given to one bulk call.
MaxBulk == 2

\* The longest list given to move_idx_to_end.
MaxLen == 3

\* The most outcomes reported in one run that are not ignored.
MaxReports == 2

\* The most items given to pytest_runtest_protocol in one run.
MaxProcessed == 4

\* The longest time between two readings of the clock.
MaxTick == 2

----------------------------------------------------------------------------
(* The universe of values *)

\* Optional[int] lineno: None is encoded as -1.
NoLine == -1

\* Optional[bytes] last_hash: None.
NoHash == "None"

Hashes == {"h0", "h1"}

Paths == {"a.py", "b.py"}

\* Location = Tuple[str, Optional[int], str].  Two tests of a.py share their
\* name and differ in the line only; the test of b.py has no line number.
Locations ==
    { <<"a.py", 1, "t1">>, <<"a.py", 2, "t1">>, <<"b.py", NoLine, "t1">> }

\* Arrow timestamps handed to the store.
Times == {1, 2}

Min(a, b) == IF a <= b THEN a ELSE b

\* The order in which an Iterable hands out its elements.
RECURSIVE IterOrder(_)
IterOrder(S) ==
    IF S = {} THEN <<>>
    ELSE LET x == CHOOSE y \in S : TRUE
         IN  <<x>> \o IterOrder(S \ {x})

----------------------------------------------------------------------------
(* The two tables *)

\* TestFile row.
TestFile(path, last_hash) == [path |-> path, last_hash |-> last_hash]

\* TestItem row.
TestItem(file, lineno, testname, last_run) ==
    [file |-> file, lineno |-> lineno, testname |-> testname,
     last_run |-> last_run]

\* TestItem.location
ItemLocation(it) == <<it.file, it.lineno, it.testname>>

\* The database right after setup_tables() on a fresh file: two empty tables.
EmptyStore == [files |-> {}, items |-> {}]

----------------------------------------------------------------------------
(* Session: queries *)

\* select(TestFile).where(TestFile.path == path)
FilesAt(st, path) == {f \in st.files : f.path = path}

\* select(TestItem).where(file == file, lineno == lineno, testname == testname)
ItemsAt(st, file, lineno, testname) ==
    {it \in st.items :
        it.file = file /\ it.lineno = lineno /\ it.testname = testname}

\* TestItem.file_id == file.id
ItemsOfFile(st, file) == {it \in st.items : it.file = file}

----------------------------------------------------------------------------
(* Session: operations.  Each yields [store, raised, result].              *)

Returned(st, result) == [store |-> st, raised |-> "", result |-> result]

Raised(st, exc) == [store |-> st, raised |-> exc, result |-> 0]

\* add_file on a table without the unique constraint on path.
add_file_not_unique(st, path, hash) ==
    Returned([st EXCEPT !.files = @ \cup {TestFile(path, hash)}], 0)

\* Session.add_file
add_file(st, path, hash) ==
    IF FilesAt(st, path) # {}
    THEN Raised(st, "IntegrityError")
    ELSE Returned([st EXCEPT !.files = @ \cup {TestFile(path, hash)}], 0)

\* add_or_update_item without the lookup of the existing row.
add_or_update_item_always_inserts(st, file, lineno, testname, last_run) ==
    [store |-> [st EXCEPT !.items =
                    @ \cup {[file |-> file, lineno |-> lineno,
                             testname |-> testname, last_run |-> last_run]}],
     raised |-> "", result |-> 0]

\* _try_get_item taking any TestFile for one of the session.
file_in_dbsession_unchecked(st, file) == TRUE

\* `file in dbsession` in Session._try_get_item: a TestFile whose row a
\* delete of this session has removed is no longer in the session.
file_in_dbsession(st, file) == FilesAt(st, file) # {}

\* Session.add_or_update_item; `file` is the path of the TestFile given.
add_or_update_item(st, file, lineno, testname, last_run) ==
    LET db_items == ItemsAt(st, file, lineno, testname)
    IN  IF ~file_in_dbsession(st, file)
        THEN Raised(st, "DetachedInstanceError")
        ELSE IF Cardinality(db_items) > 1
        THEN Raised(st, "MultipleResultsFound")
        ELSE IF db_items = {}
        THEN Returned(
                [st EXCEPT !.items =
                    @ \cup {TestItem(file, lineno, testname, last_run)}], 0)
        ELSE Returned(
                [st EXCEPT !.items =
                    (@ \ db_items)
                    \cup {[it EXCEPT !.last_run = last_run] : it \in db_items}],
                0)

\* _try_delete_item with a delete statement that matches the file alone.
TryDeleteItemStmt_by_file(st, location) ==
    LET matching == ItemsOfFile(st, location[1])
    IN  IF FilesAt(st, location[1]) = {} THEN Returned(st, FALSE)
        ELSE Returned([st EXCEPT !.items = @ \ matching], matching # {})

\* Session._try_delete_item: [store, raised, result], no commit.
TryDeleteItemStmt(st, location) ==
    LET db_files == FilesAt(st, location[1])
        matching == ItemsAt(st, location[1], location[2], location[3])
        rc       == Cardinality(matching)
    IN  IF Cardinality(db_files) > 1
        THEN Raised(st, "MultipleResultsFound")
        ELSE IF db_files = {}
        THEN Returned(st, FALSE)
        ELSE IF rc > 1
        THEN Raised([st EXCEPT !.items = @ \ matching], "MultipleResultsFound")
        ELSE Returned([st EXCEPT !.items = @ \ matching], rc = 1)

\* A nested block that is left by an exception without rolling back.
RollbackNested_keeps_work(savepoint, work) == work

\* `with dbsession.begin_nested():` left by an exception: the work done since
\* the savepoint is rolled back.
RollbackNested(savepoint, work) == savepoint

\* try_delete_item that also deletes the file it has left without items.
try_delete_item_drops_empty_file(st, location) ==
    LET r == TryDeleteItemStmt(st, location)
    IN  IF r.raised # "" THEN Raised(RollbackNested(st, r.store), r.raised)
        ELSE [r EXCEPT !.store.files =
                  {f \in @ : f.path = location[1]
                                 => ItemsOfFile(r.store, f.path) # {}}]

\* Session.try_delete_item
try_delete_item(st, location) ==
    LET r == TryDeleteItemStmt(st, location)
    IN  IF r.raised # "" THEN Raised(RollbackNested(st, r.store), r.raised)
        ELSE r

\* The hash of the file set without deleting the file's items.
invalidate_hash_keeps_items(st, file, new_hash) ==
    Returned([st EXCEPT !.files = (@ \ FilesAt(st, file))
                                      \cup {TestFile(file, new_hash)}], 0)

\* The statements of Session.invalidate_hash inside its nested transaction
\* with the delete statement missing its where clause.
InvalidateHashStmts_deletes_all(st, file, new_hash, failAt) ==
    Returned([files |-> {IF f.path = file THEN [f EXCEPT !.last_hash = new_hash]
                         ELSE f : f \in st.files},
              items |-> {}],
             Cardinality(st.items))

\* The statements of Session.invalidate_hash inside its nested transaction:
\* the hash is assigned and flushed, the file's items are deleted, the work
\* is committed.  failAt names the statement that raises ("none": none); the
\* store given back with an exception is the uncommitted work.
InvalidateHashStmts(st, file, new_hash, failAt) ==
    LET owned    == ItemsOfFile(st, file)
        rehashed == {IF f.path = file THEN [f EXCEPT !.last_hash = new_hash]
                     ELSE f : f \in st.files}
    IN  IF failAt = "flush"
        THEN Raised([files |-> rehashed, items |-> st.items], "DBAPIError")
        ELSE IF failAt = "execute"
        THEN Raised([files |-> rehashed, items |-> st.items], "DBAPIError")
        ELSE IF failAt = "commit"
        THEN Raised([files |-> rehashed, items |-> st.items \ owned],
                    "DBAPIError")
        ELSE Returned([files |-> rehashed, items |-> st.items \ owned],
                      Cardinality(owned))

\* Session.invalidate_hash with the statement failAt raising; `file` is the
\* path of an attached TestFile.
invalidate_hash_at(st, file, new_hash, failAt) ==
    LET r == InvalidateHashStmts(st, file, new_hash, failAt)
    IN  IF r.raised # "" THEN Raised(RollbackNested(st, r.store), r.raised)
        ELSE r

\* Session.invalidate_hash; `file` is the path of an attached TestFile.
invalidate_hash(st, file, new_hash) ==
    invalidate_hash_at(st, file, new_hash, "none")

\* _prune_files with a delete statement without its where clause.
PruneFilesStmt_deletes_all(st) ==
    Returned([st EXCEPT !.files = {}], Cardinality(st.files))

\* Session._prune_files: delete(TestFile).where(~TestFile.items.any())
PruneFilesStmt(st) ==
    LET orphaned == {f \in st.files : ItemsOfFile(st, f.path) = {}}
    IN  Returned([st EXCEPT !.files = @ \ orphaned], Cardinality(orphaned))

\* Session.prune_files
prune_files(st) == PruneFilesStmt(st)

\* prune_items that deletes nothing.
prune_items_keeps_all(st, known_locations) == Returned(st, 0)

\* Items pruned by the path of their file alone.
prune_items_by_path(st, known_locations) ==
    LET gone == {it \in st.items :
                    it.file \notin {loc[1] : loc \in known_locations}}
    IN  Returned([st EXCEPT !.items = @ \ gone], Cardinality(gone))

\* Session._prune_items and Session.prune_items
prune_items(st, known_locations) ==
    LET gone == {it \in st.items : ItemLocation(it) \notin known_locations}
    IN  Returned([st EXCEPT !.items = @ \ gone], Cardinality(gone))

\* The items dropped and the files kept.
drop_all_entries_keeps_files(st) ==
    Returned([st EXCEPT !.items = {}], 0)

\* Session.drop_all_entries
drop_all_entries(st) ==
    Returned(EmptyStore,
             [files_dropped |-> Cardinality(st.files),
              tests_dropped |-> Cardinality(st.items)])

----------------------------------------------------------------------------
(* Session.bulk_add_update_remove *)

\* Optional[int] pruned_files: None is encoded as -1.
NoCount == -1

\* hash_provider: Optional[TestFileHashProvider].  `given` is FALSE for None;
\* otherwise `hash` is what the provider returns for a file of that path.
NoProvider == [given |-> FALSE, hash |-> [p \in Paths |-> NoHash]]

Provider(h) == [given |-> TRUE, hash |-> h]

\* What hashing a test file on disk yields during the modelled run.
DiskHash == [p \in Paths |-> "h1"]

\* BulkUpdateResult
BulkUpdateResult(added, updated, removed, pruned_files) ==
    [added |-> added, updated |-> updated, removed |-> removed,
     pruned_files |-> pruned_files]

\* tools.count_truefalse: <<number of TRUE, number of FALSE>>
RECURSIVE count_truefalse(_)
count_truefalse(it) ==
    IF it = <<>> THEN <<0, 0>>
    ELSE LET r == count_truefalse(Tail(it))
         IN  IF Head(it) THEN <<r[1] + 1, r[2]>> ELSE <<r[1], r[2] + 1>>

\* add_or_update that reports an existing item without refreshing last_run.
add_or_update_keeps_last_run(st, location, last_run, hash_provider) ==
    LET file     == location[1]
        db_files == FilesAt(st, file)
        hash     == IF hash_provider.given THEN hash_provider.hash[file]
                    ELSE NoHash
        st1      == IF db_files = {}
                    THEN [st EXCEPT !.files = @ \cup {TestFile(file, hash)}]
                    ELSE st
        db_items == ItemsAt(st, file, location[2], location[3])
    IN  IF db_items = {}
        THEN [store |-> [st1 EXCEPT !.items =
                            @ \cup {TestItem(file, location[2], location[3],
                                             last_run)}],
              existed |-> FALSE]
        ELSE [store |-> st1, existed |-> TRUE]

\* The closure add_or_update of bulk_add_update_remove: [store, existed].
add_or_update(st, location, last_run, hash_provider) ==
    LET file     == location[1]
        lineno   == location[2]
        testname == location[3]
        db_files == FilesAt(st, file)
        hash     == IF hash_provider.given THEN hash_provider.hash[file]
                    ELSE NoHash
        st1      == IF db_files = {}
                    THEN [st EXCEPT !.files = @ \cup {TestFile(file, hash)}]
                    ELSE st
        db_items == IF db_files = {} THEN {}
                    ELSE ItemsAt(st, file, lineno, testname)
    IN  IF db_items = {}
        THEN [store |-> [st1 EXCEPT !.items =
                            @ \cup {TestItem(file, lineno, testname, last_run)}],
              existed |-> FALSE]
        ELSE [store |-> [st1 EXCEPT !.items =
                            (@ \ db_items)
                            \cup {[it EXCEPT !.last_run = last_run] :
                                    it \in db_items}],
              existed |-> TRUE]

\* map(add_or_update, add_update), stopped after n locations.
RECURSIVE AddUpdateAll(_, _, _, _, _)
AddUpdateAll(st, locs, n, last_run, hash_provider) ==
    IF n = 0 THEN [store |-> st, results |-> <<>>]
    ELSE LET prev == AddUpdateAll(st, locs, n - 1, last_run, hash_provider)
             r    == add_or_update(prev.store, locs[n], last_run, hash_provider)
         IN  [store |-> r.store, results |-> Append(prev.results, r.existed)]

\* A closure that asks the provider for the hash at every location.
HashProviderCall_every_location(st, location, hash_provider) ==
    IF hash_provider.given THEN <<location[1]>> ELSE <<>>

\* The call of hash_provider in the closure add_or_update: made with the new
\* TestFile when try_get_file found none and a provider was given.
HashProviderCall(st, location, hash_provider) ==
    IF FilesAt(st, location[1]) = {} /\ hash_provider.given
    THEN <<location[1]>> ELSE <<>>

\* The paths the provider was called with by map(add_or_update, add_update),
\* stopped after n locations.
RECURSIVE HashProviderCalls(_, _, _, _, _)
HashProviderCalls(st, locs, n, last_run, hash_provider) ==
    IF n = 0 THEN <<>>
    ELSE HashProviderCalls(st, locs, n - 1, last_run, hash_provider)
            \o HashProviderCall(
                   AddUpdateAll(st, locs, n - 1, last_run, hash_provider).store,
                   locs[n], hash_provider)

\* sum(map(deleter, try_delete)), stopped after n locations.
RECURSIVE DeleteAll(_, _, _)
DeleteAll(st, locs, n) ==
    IF n = 0 THEN [store |-> st, removed |-> 0, raised |-> ""]
    ELSE LET prev == DeleteAll(st, locs, n - 1)
             r    == TryDeleteItemStmt(prev.store, locs[n])
         IN  IF prev.raised # "" THEN prev
             ELSE IF r.raised # ""
             THEN [store |-> r.store, removed |-> prev.removed,
                   raised |-> r.raised]
             ELSE [store |-> r.store,
                   removed |-> prev.removed + (IF r.result THEN 1 ELSE 0),
                   raised |-> ""]

\* The number of places at which one bulk call can fail: each add_or_update
\* (file or item resolution, the hash provider), each delete, the pruning
\* statement, the commit.
BulkSteps(add_update, try_delete) ==
    Cardinality(add_update) + Cardinality(try_delete) + 2

\* bulk_add_update_remove with the deletions made before the additions.
bulk_add_update_remove_deletes_first(st, last_run, add_update, try_delete, hash_provider, prune, failAt) ==
    LET addSeq == IterOrder(add_update)
        delSeq == IterOrder(try_delete)
        d      == DeleteAll(st, delSeq, Len(delSeq))
        a      == AddUpdateAll(d.store, addSeq, Len(addSeq), last_run,
                               hash_provider)
        counts == count_truefalse(a.results)
        p      == IF prune THEN PruneFilesStmt(a.store)
                  ELSE Returned(a.store, NoCount)
    IN  IF failAt # 0 \/ d.raised # ""
        THEN Raised(st, "Exception")
        ELSE Returned(p.store,
                      BulkUpdateResult(counts[2], counts[1], d.removed,
                                       p.result))

\* Session.bulk_add_update_remove.  failAt = 0: nothing fails; failAt = k: the
\* k-th step of BulkSteps raises, everything before it has been executed.
bulk_add_update_remove(st, last_run, add_update, try_delete, hash_provider, prune, failAt) ==
    LET addSeq == IterOrder(add_update)
        delSeq == IterOrder(try_delete)
        nA     == Len(addSeq)
        nD     == Len(delSeq)
        doneA  == IF failAt \in 1..nA THEN failAt - 1 ELSE nA
        doneD  == IF failAt = 0 THEN nD
                  ELSE IF failAt <= nA THEN 0
                  ELSE Min(failAt - nA - 1, nD)
        a      == AddUpdateAll(st, addSeq, doneA, last_run, hash_provider)
        counts == count_truefalse(a.results)
        d      == DeleteAll(a.store, delSeq, doneD)
        pruned == prune /\ d.raised = "" /\ failAt \in {0, nA + nD + 2}
        p      == IF pruned THEN PruneFilesStmt(d.store)
                  ELSE Returned(d.store, NoCount)
        exc    == IF failAt # 0 THEN "Exception" ELSE d.raised
    IN  IF exc # ""
        THEN Raised(RollbackNested(st, p.store), exc)
        ELSE Returned(p.store,
                      BulkUpdateResult(counts[2], counts[1], d.removed,
                                       p.result))

----------------------------------------------------------------------------
(* SpecSession: the Session operations called in any order on one database *)

NoCall == [op |-> "none"]

Call(op, args, r) ==
    [op |-> op, pre |-> store, args |-> args,
     raised |-> r.raised, result |-> r.result]

\* The variables of the other specifications, at rest.
NoMove == [pc |-> "none"]

NoBulkCall == [called |-> FALSE]

NoSetup == [pc |-> "none"]

\* An engine with its tables set up and a session inside its scope.
InScope ==
    /\ engine_disposed = FALSE
    /\ session = "entered"
    /\ setup = NoSetup

NoOps == [immediate |-> <<>>, lazy |-> <<>>]

\* Optional[timedelta] _soft_timeout and Optional[Arrow] _start_time: None is
\* encoded as -1.
NoTime == -1

\* The governor of a broker without a timeout, before the test loop.
NoGovernor ==
    [soft_timeout |-> NoTime, start_time |-> NoTime, past_timeout |-> FALSE,
     clock |-> 0, marks |-> <<>>]

NoBroker ==
    /\ phase = "none"
    /\ config = [randomize |-> FALSE, hash_testfiles |-> FALSE,
                 no_pruning |-> FALSE, reset_on_saturation |-> FALSE]
    /\ items = <<>>
    /\ num_tests = NoCount
    /\ now = 0
    /\ cmp = [compared |-> FALSE]
    /\ num_passed_tests = 0
    /\ num_failed_tests = 0
    /\ lazyStore = EmptyStore
    /\ passed_tests = <<>>
    /\ failed_tests = <<>>
    /\ bulkCall = NoBulkCall
    /\ reports = <<>>
    /\ exitstatus = NoCount
    /\ warned = {}
    /\ ops = NoOps
    /\ governor = NoGovernor

InitSession ==
    /\ store = EmptyStore
    /\ call = NoCall
    /\ mv = NoMove
    /\ NoBroker
    /\ InScope

AddFile ==
    /\ call = NoCall
    /\ UNCHANGED outsideSession
    /\ \E path \in Paths, hash \in Hashes \cup {NoHash} :
        LET r == add_file(store, path, hash)
        IN  /\ store' = r.store
            /\ call' = Call("add_file", [path |-> path, hash |-> hash], r)

\* The caller gives a TestFile it obtained from this session, which may have
\* been deleted since.
AddOrUpdateItem ==
    /\ call = NoCall
    /\ UNCHANGED outsideSession
    /\ \E loc \in Locations, last_run \in Times :
        /\ LET r == add_or_update_item(store, loc[1], loc[2], loc[3], last_run)
           IN  /\ store' = r.store
               /\ call' = Call("add_or_update_item",
                               [location |-> loc, last_run |-> last_run], r)

TryDeleteItem ==
    /\ call = NoCall
    /\ UNCHANGED outsideSession
    /\ \E loc \in Locations :
        LET r == try_delete_item(store, loc)
        IN  /\ store' = r.store
            /\ call' = Call("try_delete_item", [location |-> loc], r)

InvalidateHash ==
    /\ call = NoCall
    /\ UNCHANGED outsideSession
    /\ \E f \in store.files, new_hash \in Hashes,
          failAt \in {"none", "flush", "execute", "commit"} :
        LET r == invalidate_hash_at(store, f.path, new_hash, failAt)
        IN  /\ store' = r.store
            /\ call' = Call("invalidate_hash",
                            [file |-> f.path, new_hash |-> new_hash,
                             failAt |-> failAt], r)

PruneFiles ==
    LET r == prune_files(store)
    IN  /\ call = NoCall
        /\ UNCHANGED outsideSession
        /\ store' = r.store
        /\ call' = Call("prune_files", <<>>, r)

PruneItems ==
    /\ call = NoCall
    /\ UNCHANGED outsideSession
    /\ \E known_locations \in SUBSET Locations :
        LET r == prune_items(store, known_locations)
        IN  /\ store' = r.store
            /\ call' = Call("prune_items",
                            [known_locations |-> known_locations], r)

DropAllEntries ==
    LET r == drop_all_entries(store)
    IN  /\ call = NoCall
        /\ UNCHANGED outsideSession
        /\ store' = r.store
        /\ call' = Call("drop_all_entries", <<>>, r)

BulkInputs == {S \in SUBSET Locations : Cardinality(S) <= MaxBulk}

BulkAddUpdateRemove ==
    /\ call = NoCall
    /\ UNCHANGED outsideSession
    /\ \E last_run \in Times, add_update \in BulkInputs, try_delete \in BulkInputs,
          hash_provider \in {NoProvider, Provider(DiskHash)}, prune \in BOOLEAN :
        \E failAt \in 0..BulkSteps(add_update, try_delete) :
            LET r == bulk_add_update_remove(store, last_run, add_update,
                                            try_delete, hash_provider, prune,
                                            failAt)
            IN  /\ store' = r.store
                /\ call' = Call("bulk_add_update_remove",
                                [last_run |-> last_run,
                                 add_update |-> add_update,
                                 try_delete |-> try_delete,
                                 hash_provider |-> hash_provider,
                                 prune_files |-> prune,
                                 provider_calls |->
                                     HashProviderCalls(
                                         store, IterOrder(add_update),
                                         IF failAt \in 1..Cardinality(add_update)
                                         THEN failAt - 1
                                         ELSE Cardinality(add_update),
                                         last_run, hash_provider)], r)

\* The caller takes the outcome of the call; the session is ready for the next.
CallReturns ==
    /\ call # NoCall
    /\ call' = NoCall
    /\ UNCHANGED store
    /\ UNCHANGED outsideSession

NextSession ==
    \/ CallReturns
    \/ AddFile
    \/ AddOrUpdateItem
    \/ TryDeleteItem
    \/ InvalidateHash
    \/ PruneFiles
    \/ PruneItems
    \/ DropAllEntries
    \/ BulkAddUpdateRemove

SpecSession == InitSession /\ [][NextSession]_vars

----------------------------------------------------------------------------
(* tools.move_idx_to_end *)

Elems == {"x", "y", "z"}

KeyValues == {1, 2}

\* sorting_key: Optional[KeyFunction]; `given` is FALSE for None.
NoKey == [given |-> FALSE, key |-> [e \in Elems |-> 1]]

Key(k) == [given |-> TRUE, key |-> k]

\* sorted(idx, reverse=True)
RECURSIVE SortedReverse(_)
SortedReverse(idx) ==
    IF idx = <<>> THEN <<>>
    ELSE LET top  == CHOOSE i \in 1..Len(idx) :
                        \A j \in 1..Len(idx) : idx[j] <= idx[i]
             rest == SubSeq(idx, 1, top - 1) \o SubSeq(idx, top + 1, Len(idx))
         IN  <<idx[top]>> \o SortedReverse(rest)

\* src without the element at the (0-based) index i.
WithoutIndex(src, i) == SubSeq(src, 1, i) \o SubSeq(src, i + 2, Len(src))

\* removed = [src.pop(i) for i in checked_indices()], from the k-th index on.
RECURSIVE PopChecked(_, _, _, _)
PopChecked(src, idx_b, k, removed) ==
    IF k > Len(idx_b)
    THEN [src |-> src, removed |-> removed, raised |-> ""]
    ELSE IF k > 1 /\ idx_b[k] = idx_b[k - 1]
    THEN [src |-> src, removed |-> removed, raised |-> "ValueError"]
    ELSE IF idx_b[k] >= Len(src)
    THEN [src |-> src, removed |-> removed, raised |-> "IndexError"]
    ELSE PopChecked(WithoutIndex(src, idx_b[k]), idx_b, k + 1,
                    Append(removed, src[idx_b[k] + 1]))

\* list.reverse()
RECURSIVE Reversed(_)
Reversed(s) ==
    IF s = <<>> THEN <<>> ELSE Append(Reversed(Tail(s)), Head(s))

\* e put into the sorted list s behind every element whose key is not larger.
RECURSIVE InsertByKey(_, _, _)
InsertByKey(s, e, key) ==
    IF s = <<>> THEN <<e>>
    ELSE IF key[e] < key[Head(s)] THEN <<e>> \o s
    ELSE <<Head(s)>> \o InsertByKey(Tail(s), e, key)

\* list.sort(key=key): ascending and stable.
RECURSIVE SortedByKey(_, _)
SortedByKey(s, key) ==
    IF s = <<>> THEN <<>>
    ELSE InsertByKey(SortedByKey(SubSeq(s, 1, Len(s) - 1), key),
                     s[Len(s)], key)

\* The moved elements left in the order they were removed in.
ArrangeRemoved_as_removed(removed, sorting_key) == removed

\* The moved elements behind the list: the reverse of the order they were
\* removed in, or sorted by the key.
ArrangeRemoved(removed, sorting_key) ==
    IF sorting_key.given THEN SortedByKey(removed, sorting_key.key)
    ELSE Reversed(removed)

\* move_idx_to_end that forgets the elements it removed.
move_idx_to_end_drops_removed(src, idx, sorting_key) ==
    [src |-> PopChecked(src, SortedReverse(idx), 1, <<>>).src, raised |-> ""]

\* move_idx_to_end(src, idx, sorting_key=...): [src, raised], src being the
\* list as the call leaves it.
move_idx_to_end(src, idx, sorting_key) ==
    IF idx = <<>> THEN [src |-> src, raised |-> ""]
    ELSE LET idx_b == SortedReverse(idx)
             p     == PopChecked(src, idx_b, 1, <<>>)
         IN  IF idx_b[Len(idx_b)] < 0
             THEN [src |-> src, raised |-> "IndexError"]
             ELSE IF p.raised # ""
             THEN [src |-> p.src, raised |-> p.raised]
             ELSE [src |-> p.src \o ArrangeRemoved(p.removed, sorting_key),
                   raised |-> ""]

\* The elements of src at the (0-based) indices in I, in the order of src.
RECURSIVE Pick(_, _, _)
Pick(src, I, k) ==
    IF k > Len(src) THEN <<>>
    ELSE (IF (k - 1) \in I THEN <<src[k]>> ELSE <<>>) \o Pick(src, I, k + 1)

----------------------------------------------------------------------------
(* SpecMove: move_idx_to_end called once on every list, index list and key *)

SeqsUpTo(S, n) == UNION {[1..k -> S] : k \in 0..n}

\* The index lists given for a list of length n: any indices from -1 to n,
\* repeated or not (sorted() makes the order they are given in irrelevant).
IdxLists(n) ==
    {idx \in SeqsUpTo(-1..n, n) :
        \A i \in 1..(Len(idx) - 1) : idx[i] <= idx[i + 1]}

InitMove ==
    /\ store = EmptyStore
    /\ call = NoCall
    /\ \E src \in SeqsUpTo(Elems, MaxLen) :
        \E idx \in IdxLists(Len(src)) :
            \E sorting_key \in {NoKey} \cup {Key(k) : k \in [Elems -> KeyValues]} :
                mv = [pc |-> "call", src |-> src, idx |-> idx,
                      sorting_key |-> sorting_key]
    /\ NoBroker
    /\ InScope

MoveIdxToEnd ==
    /\ mv.pc = "call"
    /\ LET r == move_idx_to_end(mv.src, mv.idx, mv.sorting_key)
       IN  mv' = [pc |-> "done", src |-> mv.src, idx |-> mv.idx,
                  sorting_key |-> mv.sorting_key,
                  out |-> r.src, raised |-> r.raised]
    /\ UNCHANGED <<sessionVars, brokerVars, engineVars>>

NextMove == MoveIdxToEnd

SpecMove == InitMove /\ [][NextMove]_vars

----------------------------------------------------------------------------
(* plugin._broker_stateful: the collection *)

\* StatefulSamplesBroker._hash_file: the hash of the file as it is on disk.
hash_file(path) == DiskHash[path]

Range(s) == {s[i] : i \in 1..Len(s)}

\* random.shuffle: the list in any order.
Shuffles(s) ==
    {t \in [1..Len(s) -> Range(s)] : \A e \in Range(s) : \E i \in 1..Len(s) : t[i] = e}

\* filter_hashed_and_update taking every stored hash for the current one.
HashChecked_never_invalidates(acc, path) ==
    [acc EXCEPT !.ok_file_ids = @ \cup {path}]

\* filter_hashed_and_update for one item that has a stored file which is not
\* in updated_file_ids: the file's hash is compared once, a stale hash
\* invalidates the file.
\* filter_hashed_and_update taking a file stored without a hash as unchanged.
HashChecked_accepts_none(acc, path) ==
    IF path \in acc.ok_file_ids THEN acc
    ELSE LET file == CHOOSE f \in FilesAt(acc.store, path) : TRUE
         IN  IF file.last_hash # NoHash /\ file.last_hash # hash_file(path)
             THEN [acc EXCEPT
                      !.store = invalidate_hash(acc.store, path,
                                                hash_file(path)).store,
                      !.updated_file_ids = @ \cup {path}]
             ELSE [acc EXCEPT !.ok_file_ids = @ \cup {path}]

HashChecked(acc, path) ==
    IF path \in acc.ok_file_ids THEN acc
    ELSE LET file == CHOOSE f \in FilesAt(acc.store, path) : TRUE
         IN  IF file.last_hash # hash_file(path)
             THEN [acc EXCEPT
                      !.store = invalidate_hash(acc.store, path,
                                                hash_file(path)).store,
                      !.updated_file_ids = @ \cup {path}]
             ELSE [acc EXCEPT !.ok_file_ids = @ \cup {path}]

\* The loop over items_source for one item that passed the filters: the item
\* is known if the store holds it, time being the seconds since its last run.
LookedUp(acc, location, item_index, t) ==
    LET db_item == ItemsAt(acc.store, location[1], location[2], location[3])
    IN  IF db_item = {} THEN acc
        ELSE [acc EXCEPT
                 !.known_test_indices = Append(@, item_index),
                 !.last_run_map =
                     (location :> (t - (CHOOSE it \in db_item : TRUE).last_run))
                         @@ @]

\* The generator pipeline of _compare_against_database from the i-th item on:
\* each item runs through filter_with_files, filter_hashed_and_update and the
\* lookup before the next item enters.
RECURSIVE CompareFrom(_, _, _, _, _)
CompareFrom(acc, collected, i, hashing, t) ==
    IF i > Len(collected) THEN acc
    ELSE IF FilesAt(acc.store, collected[i][1]) = {}
    THEN CompareFrom(acc, collected, i + 1, hashing, t)
    ELSE IF hashing /\ collected[i][1] \in acc.updated_file_ids
    THEN CompareFrom(acc, collected, i + 1, hashing, t)
    ELSE CompareFrom(
             LookedUp(IF hashing THEN HashChecked(acc, collected[i][1])
                      ELSE acc,
                      collected[i], i - 1, t),
             collected, i + 1, hashing, t)

\* _compare_against_database(session, items, hash_func) at the time t: the
\* DatabaseItemFilterResult and the store it leaves.
compare_against_database(st, collected, hashing, t) ==
    CompareFrom([store |-> st, ok_file_ids |-> {}, updated_file_ids |-> {},
                 known_test_indices |-> <<>>, last_run_map |-> <<>>],
                collected, 1, hashing, t)

\* The call of move_idx_to_end that ends pytest_collection_modifyitems.
MoveKnownToEnd(collected, known_test_indices, last_run_map) ==
    move_idx_to_end(collected, known_test_indices, Key(last_run_map)).src

\* pytest_collection_modifyitems that prunes whatever the flag says.
pytest_collection_modifyitems_always_prunes(st, collected, cfg, t) ==
    LET res == compare_against_database(st, collected, cfg.hash_testfiles, t)
        saturated == Len(res.known_test_indices) = Len(collected)
        record(reset) ==
            [compared |-> TRUE, pre |-> st, shuffled |-> collected,
             known_test_indices |-> res.known_test_indices,
             last_run_map |-> res.last_run_map, store |-> res.store,
             reset |-> reset, now |-> t]
    IN  IF Len(collected) = 0
        THEN [store |-> st, items |-> collected,
              cmp |-> [compared |-> FALSE, pre |-> st, shuffled |-> collected,
                       known_test_indices |-> <<>>, last_run_map |-> <<>>,
                       store |-> st, reset |-> FALSE, now |-> t]]
        ELSE IF saturated /\ cfg.reset_on_saturation
        THEN [store |-> drop_all_entries(res.store).store,
              items |-> collected, cmp |-> record(TRUE)]
        ELSE [store |-> prune_items(res.store, Range(collected)).store,
              items |-> MoveKnownToEnd(collected, res.known_test_indices,
                                       res.last_run_map),
              cmp |-> record(FALSE)]

\* pytest_collection_modifyitems after the shuffle, at the time t: the list
\* and the store it leaves, and the record of what it did.
pytest_collection_modifyitems(st, collected, cfg, t) ==
    LET res == compare_against_database(st, collected, cfg.hash_testfiles, t)
        saturated == Len(res.known_test_indices) = Len(collected)
        record(reset) ==
            [compared |-> TRUE, pre |-> st, shuffled |-> collected,
             known_test_indices |-> res.known_test_indices,
             last_run_map |-> res.last_run_map, store |-> res.store,
             reset |-> reset, now |-> t]
    IN  IF Len(collected) = 0
        THEN [store |-> st, items |-> collected,
              cmp |-> [compared |-> FALSE, pre |-> st, shuffled |-> collected,
                       known_test_indices |-> <<>>, last_run_map |-> <<>>,
                       store |-> st, reset |-> FALSE, now |-> t]]
        ELSE IF saturated /\ cfg.reset_on_saturation
        THEN [store |-> drop_all_entries(res.store).store,
              items |-> collected, cmp |-> record(TRUE)]
        ELSE [store |-> IF cfg.no_pruning THEN res.store
                        ELSE prune_items(res.store, Range(collected)).store,
              items |-> MoveKnownToEnd(collected, res.known_test_indices,
                                       res.last_run_map),
              cmp |-> record(FALSE)]

----------------------------------------------------------------------------
(* plugin._broker_stateful: the outcomes and the session finish *)

\* The states of pytest, the empty state of a report that is not shown, and
\* the state "rerun" of a plugin, which _TestResultState does not hold.
ResultStates ==
    {"passed", "xpassed", "xfailed", "failed", "error", "skipped", "", "rerun"}

\* _decide_result taking an error for a success.
decide_result_error_written(state) ==
    IF state = "skipped" THEN "IGNORE"
    ELSE IF state \in {"passed", "xpassed", "xfailed", "error"} THEN "WRITE"
    ELSE IF state = "failed" THEN "DROP"
    ELSE "IGNORE"

\* StatefulSamplesBroker._decide_result: whether it warns of an unexpected
\* state (TestResultStateNotImplementedWarning).
decide_result_warns(state) ==
    /\ state # "skipped"
    /\ state \notin {"passed", "xpassed", "xfailed"}
    /\ state \notin {"failed", "error"}

\* StatefulSamplesBroker._decide_result: the action it returns.
decide_result(state) ==
    IF state = "skipped" THEN "IGNORE"
    ELSE IF state \in {"passed", "xpassed", "xfailed"} THEN "WRITE"
    ELSE IF state \in {"failed", "error"} THEN "DROP"
    ELSE "IGNORE"

ExitStatuses == {0, 1, 2, 5}

\* _is_error_exitstatus taking every exit status for a normal one.
is_error_exitstatus_never(status) == FALSE

\* StatefulSamplesBroker._is_error_exitstatus
is_error_exitstatus(status) == status \notin {0, 1, 5}

\* ImmediateStatefulSamplesBroker._process_result for WRITE and DROP, on the
\* broker state b = [store, num_passed_tests, num_failed_tests].
Immediate_process_result(b, action, location, cfg, t) ==
    IF action = "DROP"
    THEN [b EXCEPT !.store = try_delete_item(@, location).store,
                   !.num_failed_tests = @ + 1]
    ELSE LET db_file_store ==
                 IF FilesAt(b.store, location[1]) # {} THEN b.store
                 ELSE add_file(b.store, location[1],
                               IF cfg.hash_testfiles
                               THEN hash_file(location[1])
                               ELSE NoHash).store
         IN  [b EXCEPT !.store = add_or_update_item(db_file_store,
                                     location[1], location[2], location[3],
                                     t).store,
                       !.num_passed_tests = @ + 1]

\* An immediate _sessionfinish that never prunes the files.
Immediate_sessionfinish_never_prunes(b, n_tests, cfg, status) ==
    IF is_error_exitstatus(status) THEN b.store
    ELSE IF b.num_passed_tests = n_tests /\ cfg.reset_on_saturation
    THEN drop_all_entries(b.store).store
    ELSE b.store

\* ImmediateStatefulSamplesBroker._sessionfinish: the store it leaves.
Immediate_sessionfinish(b, n_tests, cfg, status) ==
    IF is_error_exitstatus(status) THEN b.store
    ELSE IF b.num_passed_tests = n_tests /\ cfg.reset_on_saturation
    THEN drop_all_entries(b.store).store
    ELSE IF cfg.no_pruning THEN b.store
    ELSE prune_files(b.store).store

\* The calls of ImmediateStatefulSamplesBroker._process_result for WRITE and
\* DROP on the engine and the Session.
Immediate_process_result_ops(st, action, location) ==
    <<"new_session">> \o
        (IF action = "DROP" THEN <<"try_delete_item">>
         ELSE <<"try_get_file">> \o
                  (IF FilesAt(st, location[1]) # {} THEN <<>>
                   ELSE <<"add_file">>) \o
                  <<"add_or_update_item">>)

\* The calls of ImmediateStatefulSamplesBroker._sessionfinish.
Immediate_sessionfinish_ops(b, n_tests, cfg, status) ==
    IF is_error_exitstatus(status) THEN <<>>
    ELSE IF b.num_passed_tests = n_tests /\ cfg.reset_on_saturation
    THEN <<"new_session", "drop_all_entries">>
    ELSE IF cfg.no_pruning THEN <<>>
    ELSE <<"new_session", "prune_files">>

\* LazyStatefulSamplesBroker._process_result for WRITE and DROP, on the
\* broker state b = [passed_tests, failed_tests].
Lazy_process_result(b, action, location) ==
    IF action = "DROP"
    THEN [b EXCEPT !.failed_tests = Append(@, location)]
    ELSE [b EXCEPT !.passed_tests = Append(@, location)]

\* The passed set with the failed locations left in.
difference_update_skipped(passed, failed) == passed

\* passed_tests.difference_update(failed_tests)
difference_update(passed, failed) == passed \ failed

\* A lazy _process_result that writes the outcome at once.
Lazy_process_result_ops_at_once(action, location) ==
    <<"new_session", "bulk_add_update_remove">>

\* The calls of LazyStatefulSamplesBroker._process_result for WRITE and DROP
\* on the engine and the Session: it appends to a list.
Lazy_process_result_ops(action, location) == <<>>

\* The calls of LazyStatefulSamplesBroker._sessionfinish.
Lazy_sessionfinish_ops(b, n_tests, cfg, status) ==
    IF is_error_exitstatus(status) THEN <<>>
    ELSE IF Cardinality(difference_update(Range(b.passed_tests),
                                          Range(b.failed_tests))) = n_tests
            /\ cfg.reset_on_saturation
    THEN <<"new_session", "drop_all_entries">>
    ELSE <<"new_session", "bulk_add_update_remove">>

\* LazyStatefulSamplesBroker._sessionfinish at the time t: the store it
\* leaves and the bulk call it made.
Lazy_sessionfinish(st, b, n_tests, cfg, status, t) ==
    LET failed == Range(b.failed_tests)
        passed == difference_update(Range(b.passed_tests), failed)
    IN  IF is_error_exitstatus(status)
        THEN [store |-> st, bulkCall |-> NoBulkCall]
        ELSE IF Cardinality(passed) = n_tests /\ cfg.reset_on_saturation
        THEN [store |-> drop_all_entries(st).store, bulkCall |-> NoBulkCall]
        ELSE [store |-> bulk_add_update_remove(st, t, passed, failed,
                            IF cfg.hash_testfiles THEN Provider(DiskHash)
                            ELSE NoProvider,
                            ~cfg.no_pruning, 0).store,
              bulkCall |-> [called |-> TRUE, add_update |-> passed,
                            try_delete |-> failed]]

----------------------------------------------------------------------------
(* The runs: SpecCollect is the collection alone, on every store;           *)
(* SpecRun is the whole run under both strategies side by side: the two     *)
(* brokers start from the same store with the same flags and items and get  *)
(* the same reports and exit status.  The database operations of a run do   *)
(* not fail here (their failures are in SpecSession).                       *)

Max(S) == CHOOSE x \in S : \A y \in S : y <= x

\* pytest collects in the order of the files and lines.
CollectionOrder == <<<<"a.py", 1, "t1">>, <<"a.py", 2, "t1">>, <<"b.py", NoLine, "t1">>>>

Collected == {Pick(CollectionOrder, I, 1) : I \in SUBSET (0..(Len(CollectionOrder) - 1))}

Configs ==
    [randomize : BOOLEAN, hash_testfiles : BOOLEAN, no_pruning : BOOLEAN,
     reset_on_saturation : BOOLEAN]

\* The store with the files and items chosen by fc and ic.
StoreOf(fc, ic) ==
    [files |-> {TestFile(path, fc[path]) : path \in {q \in Paths : fc[q] # "absent"}},
     items |-> {TestItem(loc[1], loc[2], loc[3], ic[loc]) :
                    loc \in {l \in Locations : ic[l] # 0}}]

\* The stores a database can hold: files with any of the hashes, items of
\* stored files with any of the times of their last run.
Stores(hashes, times) ==
    UNION {{StoreOf(fc, ic) :
               ic \in {c \in [Locations -> times \cup {0}] :
                          \A loc \in Locations :
                              c[loc] # 0 => fc[loc[1]] # "absent"}} :
           fc \in [Paths -> hashes \cup {"absent"}]}

InitBroker(stores, configs) ==
    /\ store \in stores
    /\ lazyStore = store
    /\ call = NoCall
    /\ mv = NoMove
    /\ phase = "collect"
    /\ config \in configs
    /\ items \in Collected
    /\ num_tests = NoCount
    /\ now = Max(Times) + 1
    /\ cmp = [compared |-> FALSE]
    /\ num_passed_tests = 0
    /\ num_failed_tests = 0
    /\ passed_tests = <<>>
    /\ failed_tests = <<>>
    /\ bulkCall = NoBulkCall
    /\ reports = <<>>
    /\ exitstatus = NoCount
    /\ warned = {}
    /\ ops = NoOps
    /\ governor = NoGovernor
    /\ InScope

InitCollect == InitBroker(Stores(Hashes \cup {NoHash}, Times), Configs)

\* The runs start from the stores earlier runs with these flags leave; the
\* order of the items has no part in the outcomes, so they are not shuffled.
InitRun ==
    InitBroker(Stores({"h1"}, {Max(Times)}),
               {c \in Configs : ~c.randomize})

\* StatefulSamplesBroker.pytest_collection_modifyitems, the same under both
\* strategies.
CollectionModifyitems ==
    /\ phase = "collect"
    /\ \E shuffled \in (IF config.randomize THEN Shuffles(items) ELSE {items}) :
        LET r == pytest_collection_modifyitems(store, shuffled, config, now)
        IN  /\ store' = r.store
            /\ lazyStore' = r.store
            /\ items' = r.items
            /\ num_tests' = Len(shuffled)
            /\ cmp' = r.cmp
    /\ phase' = "run"
    /\ now' = now + 1
    /\ UNCHANGED <<call, mv, engineVars, config, num_passed_tests, num_failed_tests,
                   passed_tests, failed_tests, bulkCall, reports, exitstatus,
                   warned, ops, governor>>

\* StatefulSamplesBroker.pytest_report_teststatus for a report of a collected
\* item: ignored once the session has finished and for the state '',
\* ignored by _process_result for skipped and, with a warning, for an
\* unexpected state, processed by both brokers otherwise.
ReportTeststatus ==
    \/ /\ phase \in {"finished", "failed"}
       /\ UNCHANGED vars
    \/ /\ phase = "run"
       /\ \E state \in ResultStates :
           /\ state = "" \/ decide_result(state) = "IGNORE"
           /\ warned' = IF state # "" /\ decide_result_warns(state)
                         THEN warned \cup {state} ELSE warned
       /\ UNCHANGED <<store, call, mv, engineVars, phase, config, items,
                      num_tests, now, cmp, num_passed_tests, num_failed_tests,
                      lazyStore, passed_tests, failed_tests, bulkCall,
                      reports, exitstatus, ops, governor>>
    \/ /\ phase = "run"
       /\ Len(reports) < MaxReports
       /\ \E state \in ResultStates, location \in Range(items) :
           /\ state # "" /\ decide_result(state) # "IGNORE"
           /\ LET action == decide_result(state)
                  imm == Immediate_process_result(
                             [store |-> store,
                              num_passed_tests |-> num_passed_tests,
                              num_failed_tests |-> num_failed_tests],
                             action, location, config, now)
                  lazy == Lazy_process_result(
                              [passed_tests |-> passed_tests,
                               failed_tests |-> failed_tests],
                              action, location)
              IN  /\ store' = imm.store
                  /\ num_passed_tests' = imm.num_passed_tests
                  /\ num_failed_tests' = imm.num_failed_tests
                  /\ passed_tests' = lazy.passed_tests
                  /\ failed_tests' = lazy.failed_tests
                  /\ reports' = Append(reports, [action |-> action,
                                                 location |-> location])
                  /\ ops' = [immediate |->
                                 ops.immediate \o Immediate_process_result_ops(
                                                     store, action, location),
                             lazy |->
                                 ops.lazy \o Lazy_process_result_ops(
                                                 action, location)]
       /\ now' = now + 1
       /\ UNCHANGED <<call, mv, engineVars, phase, config, items, num_tests, cmp,
                      lazyStore, bulkCall, exitstatus, warned, governor>>

\* _session_finished set only when _sessionfinish has returned.
session_finished_only_on_return(raised) == ~raised

\* The `finally:` of pytest_sessionfinish: _session_finished after the call,
\* whether _sessionfinish returned or raised.
session_finished_after(raised) == TRUE

\* StatefulSamplesBroker.pytest_sessionfinish of both brokers.
Sessionfinish ==
    /\ phase = "run"
    /\ \E status \in ExitStatuses :
        LET lazy == Lazy_sessionfinish(
                        lazyStore,
                        [passed_tests |-> passed_tests,
                         failed_tests |-> failed_tests],
                        num_tests, config, status, now)
        IN  /\ exitstatus' = status
            /\ store' = Immediate_sessionfinish(
                            [store |-> store,
                             num_passed_tests |-> num_passed_tests,
                             num_failed_tests |-> num_failed_tests],
                            num_tests, config, status)
            /\ lazyStore' = lazy.store
            /\ bulkCall' = lazy.bulkCall
            /\ ops' = [immediate |->
                           ops.immediate \o Immediate_sessionfinish_ops(
                               [store |-> store,
                                num_passed_tests |-> num_passed_tests,
                                num_failed_tests |-> num_failed_tests],
                               num_tests, config, status),
                       lazy |->
                           ops.lazy \o Lazy_sessionfinish_ops(
                               [passed_tests |-> passed_tests,
                                failed_tests |-> failed_tests],
                               num_tests, config, status)]
    /\ phase' = IF session_finished_after(FALSE) THEN "finished" ELSE phase
    /\ UNCHANGED <<call, mv, engineVars, config, items, num_tests, now, cmp,
                   num_passed_tests, num_failed_tests, passed_tests,
                   failed_tests, reports, warned, governor>>

\* StatefulSamplesBroker.pytest_sessionfinish, called once by pytest, when
\* the database raises in the Session call of _sessionfinish: the call is
\* rolled back, the exception leaves the hook through its `finally:`.  (A
\* broker whose _sessionfinish makes no call returns with its store as it is.)
SessionfinishRaises ==
    /\ phase = "run"
    /\ exitstatus = NoCount
    /\ \E status \in ExitStatuses :
        /\ ~is_error_exitstatus(status)
        /\ exitstatus' = status
        /\ ops' = [immediate |->
                       ops.immediate \o Immediate_sessionfinish_ops(
                           [store |-> store,
                            num_passed_tests |-> num_passed_tests,
                            num_failed_tests |-> num_failed_tests],
                           num_tests, config, status),
                   lazy |->
                       ops.lazy \o Lazy_sessionfinish_ops(
                           [passed_tests |-> passed_tests,
                            failed_tests |-> failed_tests],
                           num_tests, config, status)]
    /\ phase' = IF session_finished_after(TRUE) THEN "failed" ELSE phase
    /\ UNCHANGED <<store, lazyStore, bulkCall, call, mv, engineVars, config,
                   items, num_tests, now, cmp, num_passed_tests,
                   num_failed_tests, passed_tests, failed_tests, reports,
                   warned, governor>>

NextCollect == CollectionModifyitems

SpecCollect == InitCollect /\ [][NextCollect]_vars

NextRun ==
    \/ CollectionModifyitems
    \/ ReportTeststatus
    \/ Sessionfinish
    \/ SessionfinishRaises

SpecRun == InitRun /\ [][NextRun]_vars

\* The runs with the no-pruning flag, on stores whose files may have changed
\* on disk since their hash was stored.
InitNoPruning ==
    InitBroker(Stores(Hashes, {Max(Times)}),
               {c \in Configs : c.no_pruning /\ ~c.randomize})

SpecNoPruning == InitNoPruning /\ [][NextRun]_vars

----------------------------------------------------------------------------
(* database._engine and the scope of a Session *)

\* Session.try_get_file
try_get_file(st, path) == Returned(st, FilesAt(st, path))

\* Session.try_get_item
try_get_item(st, file, lineno, testname) ==
    Returned(st, ItemsAt(st, file, lineno, testname))

\* Session._ensure_session: the exception it raises, "" when it returns the
\* orm session.  _session is None only until __enter__ is called.
ensure_session(sess) == IF sess = "new" THEN "InactiveSessionError" ELSE ""

\* _ensure_not_disposed that never raises.
ensure_not_disposed_never(disposed) == ""

\* EngineBase._ensure_not_disposed: the exception it raises, "" when none.
ensure_not_disposed(disposed) ==
    IF disposed THEN "EngineDisposedError" ELSE ""

\* Whether a Session operation that is given a TestFile can be given a
\* detached one: outside the scope a TestFile obtained inside it is detached,
\* one obtained from the session after __exit__ is attached to the orm
\* session sqlalchemy reopened.
Detachable(sess, fileGiven) ==
    IF fileGiven /\ sess = "exited" THEN BOOLEAN ELSE {FALSE}

----------------------------------------------------------------------------
(* SpecEngine: one engine on a database file with tables, and one Session   *)
(* obtained from it; the engine is disposed and the session entered, left   *)
(* and used in any order.  sqlalchemy reopens a disposed engine and a       *)
(* closed orm session when they are used again.                             *)

InitEngine ==
    /\ store \in Stores({"h1"}, {Max(Times)})
    /\ call = NoCall
    /\ mv = NoMove
    /\ NoBroker
    /\ engine_disposed = FALSE
    /\ session = "none"
    /\ setup = NoSetup

\* EngineBase.dispose
EngineDispose ==
    /\ call = NoCall
    /\ engine_disposed' = TRUE
    /\ call' = Call("dispose", <<>>, Returned(store, 0))
    /\ UNCHANGED <<store, mv, brokerVars, session, setup>>

\* EngineBase.setup_tables on a file that has the tables
EngineSetupTables ==
    /\ call = NoCall
    /\ call' = Call("setup_tables", <<>>,
                    IF ensure_not_disposed(engine_disposed) # ""
                    THEN Raised(store, ensure_not_disposed(engine_disposed))
                    ELSE Returned(store, 0))
    /\ UNCHANGED <<store, mv, brokerVars, engineVars>>

\* EngineBase.new_session
EngineNewSession ==
    /\ call = NoCall
    /\ IF ensure_not_disposed(engine_disposed) # ""
       THEN /\ call' = Call("new_session", <<>>,
                            Raised(store, ensure_not_disposed(engine_disposed)))
            /\ UNCHANGED session
       ELSE /\ call' = Call("new_session", <<>>, Returned(store, 0))
            /\ session' = "new"
    /\ UNCHANGED <<store, mv, brokerVars, engine_disposed, setup>>

\* Session.__enter__
SessionEnter ==
    /\ call = NoCall
    /\ session # "none"
    /\ session' = "entered"
    /\ call' = Call("__enter__", <<>>, Returned(store, 0))
    /\ UNCHANGED <<store, mv, brokerVars, engine_disposed, setup>>

\* Session.__exit__
SessionExit ==
    /\ call = NoCall
    /\ session # "none"
    /\ session' = IF session = "new" THEN "new" ELSE "exited"
    /\ call' = Call("__exit__", <<>>, Returned(store, 0))
    /\ UNCHANGED <<store, mv, brokerVars, engine_disposed, setup>>

\* A Session operation called on the session object: _ensure_session first,
\* then the outcome o the operation has on the store.
Scoped(op, o, fileGiven) ==
    /\ call = NoCall
    /\ session # "none"
    /\ \E detached \in Detachable(session, fileGiven) :
        LET r == IF ensure_session(session) # ""
                 THEN Raised(store, ensure_session(session))
                 ELSE IF detached
                 THEN Raised(store, "DetachedInstanceError")
                 ELSE o
        IN  /\ store' = r.store
            /\ call' = Call(op, <<>>, r)
    /\ UNCHANGED <<mv, brokerVars, engineVars>>

ScopedTryGetFile ==
    \E path \in Paths :
        Scoped("try_get_file", try_get_file(store, path), FALSE)

ScopedAddFile ==
    \E path \in Paths, hash \in Hashes \cup {NoHash} :
        Scoped("add_file", add_file(store, path, hash), FALSE)

ScopedTryGetItem ==
    \E loc \in Locations :
        /\ FilesAt(store, loc[1]) # {}
        /\ Scoped("try_get_item",
                  try_get_item(store, loc[1], loc[2], loc[3]), TRUE)

ScopedInvalidateHash ==
    \E f \in store.files, new_hash \in Hashes :
        Scoped("invalidate_hash",
               invalidate_hash(store, f.path, new_hash), TRUE)

ScopedPruneFiles == Scoped("prune_files", prune_files(store), FALSE)

ScopedPruneItems ==
    \E known_locations \in SUBSET Locations :
        Scoped("prune_items", prune_items(store, known_locations), FALSE)

ScopedAddOrUpdateItem ==
    \E loc \in Locations, last_run \in Times :
        /\ FilesAt(store, loc[1]) # {}
        /\ Scoped("add_or_update_item",
                  add_or_update_item(store, loc[1], loc[2], loc[3], last_run),
                  TRUE)

ScopedTryDeleteItem ==
    \E loc \in Locations :
        Scoped("try_delete_item", try_delete_item(store, loc), FALSE)

ScopedBulkAddUpdateRemove ==
    \E add_update \in BulkInputs, try_delete \in BulkInputs, prune \in BOOLEAN :
        Scoped("bulk_add_update_remove",
               bulk_add_update_remove(store, Max(Times), add_update,
                                      try_delete, NoProvider, prune, 0),
               FALSE)

ScopedDropAllEntries ==
    Scoped("drop_all_entries", drop_all_entries(store), FALSE)

NextEngine ==
    \/ CallReturns
    \/ EngineDispose
    \/ EngineSetupTables
    \/ EngineNewSession
    \/ SessionEnter
    \/ SessionExit
    \/ ScopedTryGetFile
    \/ ScopedAddFile
    \/ ScopedTryGetItem
    \/ ScopedInvalidateHash
    \/ ScopedPruneFiles
    \/ ScopedPruneItems
    \/ ScopedAddOrUpdateItem
    \/ ScopedTryDeleteItem
    \/ ScopedBulkAddUpdateRemove
    \/ ScopedDropAllEntries

SpecEngine == InitEngine /\ [][NextEngine]_vars

----------------------------------------------------------------------------
(* SpecSetup: StatefulSamplesBroker._setup_engine and _setup_tables opening *)
(* a database file that is valid or broken.  setup_tables fails on a broken *)
(* file and can fail on any file; truncating can fail too.                  *)

\* _setup_tables after a failed setup_tables that retries whatever the
\* overwrite flag says.
AfterFailure_ignores_overwrite(overwrite, second_attempt) ==
    IF second_attempt THEN "UsageError" ELSE "truncate"

\* _setup_tables after a failed setup_tables that retries without end.
AfterFailure_keeps_trying(overwrite, second_attempt) ==
    IF ~overwrite THEN "UsageError" ELSE "truncate"

\* _setup_tables after a failed setup_tables: raise the UsageError, or
\* truncate the file before the second attempt.
AfterFailure(overwrite, second_attempt) ==
    IF ~overwrite THEN "UsageError"
    ELSE IF second_attempt THEN "UsageError"
    ELSE "truncate"

\* What setup_tables can do on the file: it fails on a broken one.
SetupTablesOutcomes(file) ==
    IF file = "broken" THEN {"failed"} ELSE {"ok", "failed"}

TruncateOutcomes == {"ok", "IsADirectoryError", "OSError"}

\* pytest_collection_modifyitems storing every engine, the disposed one too.
EngineAfterSetup_always_assigned(raised) == "assigned"

\* self._engine after _setup_engine in pytest_collection_modifyitems: the
\* assignment is not reached when _setup_engine raises.
EngineAfterSetup(raised) == IF raised = "" THEN "assigned" ELSE "None"

\* Engine.__init__ on the database path: a directory and a malformed path
\* are refused.
EngineInitOutcomes == {"ok", "IsADirectoryError", "RelativePathError"}

InitSetup ==
    /\ store \in Stores({"h1"}, Times)
    /\ call = NoCall
    /\ mv = NoMove
    /\ NoBroker
    /\ engine_disposed = FALSE
    /\ session = "none"
    /\ \E overwrite \in BOOLEAN, file \in {"valid", "broken"} :
        setup = [pc |-> "engine", overwrite |-> overwrite,
                 second_attempt |-> FALSE, file |-> file,
                 pre |-> [store |-> store, file |-> file],
                 events |-> <<>>, raised |-> "",
                 created |-> FALSE, engine |-> "None", disposals |-> 0,
                 finish |-> ""]

\* Engine(path) at the head of _setup_engine.
SetupEngineCreates ==
    /\ setup.pc = "engine"
    /\ \E outcome \in EngineInitOutcomes :
        setup' = IF outcome = "ok"
                 THEN [setup EXCEPT !.pc = "setup_tables", !.created = TRUE]
                 ELSE [setup EXCEPT
                          !.pc = "done",
                          !.raised = IF outcome = "RelativePathError"
                                     THEN outcome ELSE "UsageError",
                          !.engine = EngineAfterSetup(outcome)]
    /\ UNCHANGED <<store, call, mv, brokerVars, engine_disposed, session>>

\* One pass of the loop of _setup_tables: engine.setup_tables() and what
\* follows its outcome up to the return, the raise or the truncation.
SetupTables ==
    /\ setup.pc = "setup_tables"
    /\ \E outcome \in SetupTablesOutcomes(setup.file) :
        IF outcome = "ok"
        THEN setup' = [setup EXCEPT !.pc = "returned",
                                    !.events = Append(@, "setup_tables ok")]
        ELSE IF AfterFailure(setup.overwrite, setup.second_attempt) = "truncate"
        THEN setup' = [setup EXCEPT !.pc = "truncate",
                                    !.second_attempt = TRUE,
                                    !.events = Append(@, "setup_tables failed")]
        ELSE setup' = [setup EXCEPT !.pc = "raised",
                                    !.raised = "UsageError",
                                    !.events = Append(@, "setup_tables failed")]
    /\ UNCHANGED <<store, call, mv, brokerVars, engine_disposed, session>>

\* engine.truncate_database_file() in _setup_tables.
TruncateDatabaseFile ==
    /\ setup.pc = "truncate"
    /\ \E outcome \in TruncateOutcomes :
        IF outcome = "ok"
        THEN /\ store' = EmptyStore
             /\ setup' = [setup EXCEPT !.pc = "setup_tables",
                                       !.file = "valid",
                                       !.events = Append(@, "truncate")]
        ELSE /\ UNCHANGED store
             /\ setup' = [setup EXCEPT
                             !.pc = "raised",
                             !.raised = IF outcome = "IsADirectoryError"
                                        THEN "UsageError" ELSE outcome,
                             !.events = Append(@, "truncate failed")]
    /\ UNCHANGED <<call, mv, brokerVars, engine_disposed, session>>

\* The end of _setup_engine: the engine is returned and stored in _engine,
\* or disposed when _setup_tables raised.
SetupEngineEnds ==
    /\ setup.pc \in {"returned", "raised"}
    /\ setup' = [setup EXCEPT
                    !.pc = "done",
                    !.engine = EngineAfterSetup(setup.raised),
                    !.disposals = IF setup.pc = "raised" THEN @ + 1 ELSE @]
    /\ engine_disposed' = (setup.pc = "raised")
    /\ UNCHANGED <<store, call, mv, brokerVars, session>>

\* What _sessionfinish can do: return, or raise from a store operation.
SessionfinishOutcomes == {"returned", "raised"}

\* StatefulSamplesBroker.pytest_sessionfinish after the collection hook has
\* ended: _sessionfinish returns or raises, and the finally block disposes
\* the engine in _engine.
PytestSessionfinish ==
    /\ setup.pc = "done"
    /\ \E outcome \in SessionfinishOutcomes :
        setup' = [setup EXCEPT
                     !.pc = "finished",
                     !.finish = outcome,
                     !.disposals = IF setup.engine # "None" THEN @ + 1 ELSE @]
    /\ engine_disposed' = (engine_disposed \/ setup.engine # "None")
    /\ UNCHANGED <<store, call, mv, brokerVars, session>>

NextSetup ==
    \/ SetupEngineCreates
    \/ SetupTables
    \/ TruncateDatabaseFile
    \/ SetupEngineEnds
    \/ PytestSessionfinish

SpecSetup == InitSetup /\ [][NextSetup]_vars

----------------------------------------------------------------------------
(* plugin._broker_base: the soft timeout.  SpecTimeout is the test loop of  *)
(* one run: pytest gives the items to pytest_runtest_protocol one by one,   *)
(* and the clock does not go back between two readings.                     *)

\* The timeouts of a run: none, or a budget.
SoftTimeouts == {NoTime, 0, 1, 3}

\* A check that lets the budget itself pass.
check_timeout_expired_after(start_time, timeout, t) ==
    (t - start_time) > timeout

\* SamplesBrokerBase.check_timeout_expired with Arrow.now() = t
check_timeout_expired(start_time, timeout, t) ==
    (t - start_time) >= timeout

Marked(g, skip) == [g EXCEPT !.marks = Append(@, skip)]

\* A governor that lets the item pass that made it detect the timeout.
prepare_item_check_timeout_skips_next(g, t) ==
    IF g.soft_timeout = NoTime THEN Marked(g, FALSE)
    ELSE IF g.past_timeout THEN Marked(g, TRUE)
    ELSE IF g.start_time = NoTime
    THEN Marked([g EXCEPT !.start_time = t], FALSE)
    ELSE IF check_timeout_expired(g.start_time, g.soft_timeout, t)
    THEN Marked([g EXCEPT !.past_timeout = TRUE], FALSE)
    ELSE Marked(g, FALSE)

\* A governor that checks the item that starts the clock as well.
prepare_item_check_timeout_checks_first(g, t) ==
    IF g.soft_timeout = NoTime THEN Marked(g, FALSE)
    ELSE IF g.past_timeout THEN Marked(g, TRUE)
    ELSE IF check_timeout_expired(
                IF g.start_time = NoTime THEN t ELSE g.start_time,
                g.soft_timeout, t)
    THEN Marked([g EXCEPT !.start_time = IF @ = NoTime THEN t ELSE @,
                          !.past_timeout = TRUE], TRUE)
    ELSE Marked([g EXCEPT !.start_time = IF @ = NoTime THEN t ELSE @], FALSE)

\* SamplesBrokerBase._prepare_item_check_timeout on the governor g with
\* Arrow.now() = t: the fields it leaves and whether it marked the item skip.
prepare_item_check_timeout(g, t) ==
    IF g.soft_timeout = NoTime THEN Marked(g, FALSE)
    ELSE IF g.past_timeout THEN Marked(g, TRUE)
    ELSE IF g.start_time = NoTime
    THEN Marked([g EXCEPT !.start_time = t], FALSE)
    ELSE IF check_timeout_expired(g.start_time, g.soft_timeout, t)
    THEN Marked([g EXCEPT !.past_timeout = TRUE], TRUE)
    ELSE Marked(g, FALSE)

InitTimeout ==
    /\ store = EmptyStore
    /\ call = NoCall
    /\ mv = NoMove
    /\ phase = "none"
    /\ config = [randomize |-> FALSE, hash_testfiles |-> FALSE,
                 no_pruning |-> FALSE, reset_on_saturation |-> FALSE]
    /\ items = <<>>
    /\ num_tests = NoCount
    /\ now = 0
    /\ cmp = [compared |-> FALSE]
    /\ num_passed_tests = 0
    /\ num_failed_tests = 0
    /\ lazyStore = EmptyStore
    /\ passed_tests = <<>>
    /\ failed_tests = <<>>
    /\ bulkCall = NoBulkCall
    /\ reports = <<>>
    /\ exitstatus = NoCount
    /\ warned = {}
    /\ ops = NoOps
    /\ \E timeout \in SoftTimeouts :
        governor = [NoGovernor EXCEPT !.soft_timeout = timeout]
    /\ InScope

\* SamplesBrokerBase.pytest_runtest_protocol for the next item, some time
\* after the item before it.
PytestRuntestProtocol ==
    /\ Len(governor.marks) < MaxProcessed
    /\ \E tick \in 0..MaxTick :
        governor' = prepare_item_check_timeout(
                        [governor EXCEPT !.clock = @ + tick],
                        governor.clock + tick)
    /\ UNCHANGED <<store, call, mv, engineVars, phase, config, items,
                   num_tests, now, cmp, num_passed_tests, num_failed_tests,
                   lazyStore, passed_tests, failed_tests, bulkCall, reports,
                   exitstatus, warned, ops>>

NextTimeout == PytestRuntestProtocol

SpecTimeout == InitTimeout /\ [][NextTimeout]_vars

----------------------------------------------------------------------------
(* Claims about the Session, checked under SpecSession *)

\* The stored items at a location.
ItemsAtLocation(st, loc) == ItemsAt(st, loc[1], loc[2], loc[3])

\* The locations of S that have a stored item in st.
StoredAmong(st, S) == {loc \in S : ItemsAtLocation(st, loc) # {}}

\* The items of st whose location is not in S.
ItemsOutside(st, S) == {it \in st.items : ItemLocation(it) \notin S}

BulkReturned ==
    /\ call.op = "bulk_add_update_remove"
    /\ call.raised = ""

BulkDisjoint == call.args.add_update \cap call.args.try_delete = {}

\* C1: a bulk_add_update_remove call that returns, given A distinct add_update
\* locations of which U had a stored item and a disjoint try_delete set of
\* which R had a stored item, returns added = A-U, updated = U, removed = R;
\* the number of stored items is the number before plus (A-U) minus R; every
\* add_update location then holds one item with the given last_run; the items
\* named in neither set are as they were.
C1_BulkAccounting ==
    (BulkReturned /\ BulkDisjoint) =>
        LET add   == call.args.add_update
            del   == call.args.try_delete
            A     == Cardinality(add)
            U     == Cardinality(StoredAmong(call.pre, add))
            R     == Cardinality(StoredAmong(call.pre, del))
        IN  /\ call.result.added = A - U
            /\ call.result.updated = U
            /\ call.result.removed = R
            /\ Cardinality(store.items) =
                    Cardinality(call.pre.items) + (A - U) - R
            /\ \A loc \in add :
                    /\ Cardinality(ItemsAtLocation(store, loc)) = 1
                    /\ \A it \in ItemsAtLocation(store, loc) :
                            it.last_run = call.args.last_run
            /\ ItemsOutside(store, add \cup del) =
                    ItemsOutside(call.pre, add \cup del)

\* C1 witness: one call that adds an item, refreshes an item stored with
\* another last_run, and removes a stored item.
C1_Witness ==
    /\ BulkReturned
    /\ BulkDisjoint
    /\ call.result.added = 1
    /\ call.result.removed = 1
    /\ \E loc \in call.args.add_update :
            \E it \in ItemsAtLocation(call.pre, loc) :
                it.last_run # call.args.last_run

\* C2: a bulk_add_update_remove call that raises, at whichever step, leaves
\* the store holding exactly the TestFiles and TestItems, with the same
\* last_hash and last_run, that it held before the call.
C2_BulkAtomic ==
    (call.op = "bulk_add_update_remove" /\ call.raised # "") =>
        store = call.pre

\* The store as the failing transaction had changed it when step failAt raised.
BulkWorkAt(failAt) ==
    LET a == call.args
        n == Cardinality(a.add_update)
        done == AddUpdateAll(call.pre, IterOrder(a.add_update),
                             IF failAt <= n THEN failAt - 1 ELSE n,
                             a.last_run, a.hash_provider)
    IN  done.store

\* C2 witness: a call raised after the transaction had already added a file
\* and an item.
C2_Witness ==
    /\ call.op = "bulk_add_update_remove"
    /\ call.raised # ""
    /\ \E failAt \in 1..BulkSteps(call.args.add_update, call.args.try_delete) :
            /\ BulkWorkAt(failAt).files # call.pre.files
            /\ BulkWorkAt(failAt).items # call.pre.items

\* C10: after an add_or_update_item call the store holds exactly one TestItem
\* for the (file, lineno, testname) of the call, its last_run is the timestamp
\* of that call, and the TestFiles and all other TestItems are as before; so
\* after any sequence of such calls on one triple there is one item, carrying
\* the timestamp of the most recent call.
C10_AddOrUpdateItem ==
    (call.op = "add_or_update_item" /\ call.raised = "") =>
        LET loc == call.args.location
        IN  /\ Cardinality(ItemsAtLocation(store, loc)) = 1
            /\ \A it \in ItemsAtLocation(store, loc) :
                    it.last_run = call.args.last_run
            /\ store.files = call.pre.files
            /\ ItemsOutside(store, {loc}) = ItemsOutside(call.pre, {loc})
            /\ (ItemsAtLocation(call.pre, loc) # {} =>
                    Cardinality(store.items) = Cardinality(call.pre.items))

\* C10 witness: a call on a triple that an earlier call had stored with
\* another timestamp, while another item is stored too.
C10_Witness ==
    /\ call.op = "add_or_update_item"
    /\ call.raised = ""
    /\ \E it \in ItemsAtLocation(call.pre, call.args.location) :
            it.last_run # call.args.last_run
    /\ ItemsOutside(call.pre, {call.args.location}) # {}

----------------------------------------------------------------------------
(* Claims about move_idx_to_end, checked under SpecMove *)

Count(s, e) == Cardinality({i \in 1..Len(s) : s[i] = e})

Permutation(s, t) == \A e \in Elems : Count(s, e) = Count(t, e)

IdxSet(idx) == {idx[i] : i \in 1..Len(idx)}

\* idx is a set of distinct indices of src.
DistinctInRange(src, idx) ==
    /\ Cardinality(IdxSet(idx)) = Len(idx)
    /\ IdxSet(idx) \subseteq 0..(Len(src) - 1)

MovedTail(src, idx, out) ==
    SubSeq(out, Len(src) - Len(idx) + 1, Len(out))

\* C7: with distinct in-range indices move_idx_to_end does not raise and
\* leaves in src the elements at the indices outside idx in their original
\* order, followed by the elements at the indices in idx: in their original
\* order without a key, in ascending key order with one; the list is a
\* permutation of the original.
C7_MoveIdxToEnd ==
    (mv.pc = "done" /\ DistinctInRange(mv.src, mv.idx)) =>
        LET I    == IdxSet(mv.idx)
            tail == MovedTail(mv.src, mv.idx, mv.out)
        IN  /\ mv.raised = ""
            /\ Len(mv.out) = Len(mv.src)
            /\ SubSeq(mv.out, 1, Len(mv.src) - Len(mv.idx))
                   = Pick(mv.src, (0..(Len(mv.src) - 1)) \ I, 1)
            /\ IF mv.sorting_key.given
               THEN /\ Permutation(tail, Pick(mv.src, I, 1))
                    /\ \A i, j \in 1..Len(tail) :
                           i < j => mv.sorting_key.key[tail[i]]
                                        <= mv.sorting_key.key[tail[j]]
               ELSE tail = Pick(mv.src, I, 1)
            /\ Permutation(mv.out, mv.src)

\* A call with a key that moves two elements from inside the list and puts
\* them in another order than they had.
C7_Witness ==
    /\ mv.pc = "done"
    /\ DistinctInRange(mv.src, mv.idx)
    /\ Len(mv.idx) = 2
    /\ (Len(mv.src) - 1) \notin IdxSet(mv.idx)
    /\ mv.sorting_key.given
    /\ MovedTail(mv.src, mv.idx, mv.out) # Pick(mv.src, IdxSet(mv.idx), 1)
    /\ mv.sorting_key.key[mv.out[Len(mv.out) - 1]]
           < mv.sorting_key.key[mv.out[Len(mv.out)]]

----------------------------------------------------------------------------
(* Claims about the collection, checked under SpecCollect *)

Collects == phase \in {"run", "finished"}

\* The collected items the comparison reported as known.
KnownItems == {cmp.shuffled[i + 1] : i \in Range(cmp.known_test_indices)}

CollectedOf(path) == {loc \in Range(cmp.shuffled) : loc[1] = path}

\* A stored file whose hash the comparison compares: it owns a collected item.
Compared(f) == CollectedOf(f.path) # {}

Stale(f) == f.last_hash # hash_file(f.path)

LastRunOf(loc) == (CHOOSE it \in ItemsAtLocation(cmp.store, loc) : TRUE).last_run

\* The block of known items at the tail of the reordered list.
KnownBlock ==
    SubSeq(items, Len(items) - Len(cmp.known_test_indices) + 1, Len(items))

\* C8: after the reorder, within the block of known items at the tail, the
\* item whose last run is the oldest comes first and the item run most
\* recently comes last.
C8_OldestFirst ==
    (Collects /\ cmp.compared /\ ~cmp.reset) =>
        \A i, j \in 1..Len(KnownBlock) :
            i < j => LastRunOf(KnownBlock[i]) <= LastRunOf(KnownBlock[j])

\* C9: after pytest_collection_modifyitems every item that is not known
\* precedes every known item, the unknown items are in the order they had
\* after the shuffle, and the list holds the collected items, each once.
C9_UnknownFirst ==
    Collects =>
        LET unknown == Pick(cmp.shuffled,
                            (0..(Len(cmp.shuffled) - 1))
                                \ Range(cmp.known_test_indices), 1)
        IN  /\ Len(items) = Len(cmp.shuffled)
            /\ Range(items) = Range(cmp.shuffled)
            /\ SubSeq(items, 1, Len(unknown)) = unknown
            /\ Range(SubSeq(items, Len(unknown) + 1, Len(items))) = KnownItems

\* A shuffled list with a known item between two unknown items that the
\* shuffle put in another order than they were collected in.
C9_Witness ==
    /\ Collects /\ config.randomize
    /\ Len(cmp.shuffled) = 3
    /\ cmp.known_test_indices = <<1>>
    /\ items # cmp.shuffled
    /\ <<items[1], items[2]>> # Pick(CollectionOrder,
                                     {i \in 0..2 : CollectionOrder[i + 1]
                                                      \in {items[1], items[2]}}, 1)

----------------------------------------------------------------------------
(* Claims about the runs, checked under SpecRun *)

NormalExit == phase = "finished" /\ ~is_error_exitstatus(exitstatus)

\* The locations recorded both as passed and as failed.
BothWays == Range(passed_tests) \cap Range(failed_tests)

FailedAtFinish(loc) ==
    /\ bulkCall.called => (loc \in bulkCall.try_delete
                             /\ loc \notin bulkCall.add_update)
    /\ ItemsAtLocation(lazyStore, loc) = {}

\* C3 (as stated): in the lazy strategy a location recorded both as passed and
\* as failed is given to the store only in try_delete, never in add_update,
\* and the store holds no item for it after the run.
C3_FailedWins ==
    phase = "finished" => \A loc \in BothWays : FailedAtFinish(loc)

\* C3 (amended): the same for the runs that end with a normal exit status.
C3_FailedWinsNormalExit ==
    NormalExit => \A loc \in BothWays : FailedAtFinish(loc)

\* A stored, known item is reported failed and then passed; the lazy session
\* finish makes the bulk call.
C3_Witness ==
    /\ NormalExit
    /\ bulkCall.called
    /\ Len(reports) = 2
    /\ reports[1].action = "DROP" /\ reports[2].action = "WRITE"
    /\ reports[1].location = reports[2].location
    /\ reports[1].location \in KnownItems
    /\ ~cmp.reset

PathsOf(st) == {f.path : f \in st.files}

LocationsOf(st) == {ItemLocation(it) : it \in st.items}

\* C4: a run that ends with a normal exit status leaves the same TestFiles
\* and the same TestItem locations under the immediate strategy as under the
\* lazy strategy.
C4_SameStores ==
    NormalExit =>
        /\ PathsOf(store) = PathsOf(lazyStore)
        /\ LocationsOf(store) = LocationsOf(lazyStore)

AllKnown ==
    /\ Collects
    /\ \A i \in 1..Len(cmp.shuffled) : (i - 1) \in Range(cmp.known_test_indices)

BothEmpty == store = EmptyStore /\ lazyStore = EmptyStore

\* C5 (as stated): with reset-on-saturation, if every collected item is known
\* at collection time, the run ends with an empty store under both strategies.
C5_ResetEndsEmpty ==
    (phase = "finished" /\ config.reset_on_saturation /\ AllKnown) => BothEmpty

Reported(action, loc) ==
    {i \in 1..Len(reports) :
        reports[i].action = action /\ reports[i].location = loc}

\* Every collected item was recorded as passed once and none as failed.
EachPassedOnce ==
    \A loc \in Range(items) :
        /\ Cardinality(Reported("WRITE", loc)) = 1
        /\ Reported("DROP", loc) = {}

\* C5 (amended): with reset-on-saturation, if at least one item is collected
\* and every collected item is known at collection time, both stores are
\* empty when the collection ends, and they are empty at the end of a run
\* with a normal exit status in which every collected item was recorded as
\* passed once and none as failed.
C5_ResetEmptiesStore ==
    (config.reset_on_saturation /\ AllKnown /\ num_tests > 0) =>
        /\ (phase = "run" /\ reports = <<>>) => BothEmpty
        /\ (NormalExit /\ EachPassedOnce) => BothEmpty

\* Two stored, known items are collected, the store is reset, both pass and
\* the run ends normally.
C5_Witness ==
    /\ config.reset_on_saturation /\ AllKnown /\ num_tests = 2
    /\ cmp.reset
    /\ NormalExit /\ EachPassedOnce
    /\ BothEmpty

----------------------------------------------------------------------------
(* More claims about the Session, checked under SpecSession *)

InvalidateHashCalled == call.op = "invalidate_hash"

\* C11: invalidate_hash(file, h) on a file owning N items leaves the file's
\* last_hash equal to h and no item owned by the file, and returns N; when a
\* statement of it raises, the store is as it was before the call, so the
\* new hash and the deletion are committed together or not at all.
C11_InvalidateHash ==
    InvalidateHashCalled =>
        IF call.raised = ""
        THEN /\ FilesAt(store, call.args.file)
                    = {TestFile(call.args.file, call.args.new_hash)}
             /\ ItemsOfFile(store, call.args.file) = {}
             /\ call.result = Cardinality(ItemsOfFile(call.pre, call.args.file))
        ELSE store = call.pre

\* A call that returns 2 for a file with two items and another hash, next to
\* a file with an item.
C11_Witness ==
    /\ InvalidateHashCalled
    /\ call.raised = ""
    /\ call.result = 2
    /\ FilesAt(call.pre, call.args.file)
           # {TestFile(call.args.file, call.args.new_hash)}
    /\ store.items # {}

PruneItemsCalled == call.op = "prune_items" /\ call.raised = ""

\* C12: prune_items(known) deletes exactly the stored items whose location is
\* not in known and returns their number; a second call with the same known
\* set deletes nothing and returns 0.
C12_PruneItems ==
    PruneItemsCalled =>
        /\ store.items = {it \in call.pre.items :
                             ItemLocation(it) \in call.args.known_locations}
        /\ store.files = call.pre.files
        /\ call.result = Cardinality(call.pre.items \ store.items)
        /\ prune_items(store, call.args.known_locations) = Returned(store, 0)

\* A call that deletes one item of a file and keeps another item of it.
C12_Witness ==
    /\ PruneItemsCalled
    /\ call.result = 1
    /\ \E gone \in call.pre.items \ store.items :
           \E kept \in store.items : kept.file = gone.file

----------------------------------------------------------------------------
(* Claims about the engine and the scope of a Session, checked under        *)
(* SpecEngine                                                               *)

SessionOps ==
    {"try_get_file", "add_file", "try_get_item", "invalidate_hash",
     "prune_files", "prune_items", "add_or_update_item", "try_delete_item",
     "bulk_add_update_remove", "drop_all_entries"}

\* C13: every Session operation invoked outside the session's scope, before
\* __enter__ or after __exit__, fails with InactiveSessionError and leaves
\* the store unchanged.
C13_OutsideScopeRaises ==
    (call.op \in SessionOps /\ session # "entered") =>
        (call.raised = "InactiveSessionError" /\ store = call.pre)

\* C14: once the engine is disposed, every call of setup_tables or
\* new_session fails with EngineDisposedError and creates no session, and
\* the engine stays disposed whatever is called.
C14_DisposedForGood ==
    /\ []((engine_disposed /\ call.op \in {"setup_tables", "new_session"})
              => call.raised = "EngineDisposedError")
    /\ [][engine_disposed =>
              (engine_disposed' /\ (session' = "new" => session = "new"))]_vars

\* new_session fails on a disposed engine whose session was used and left.
C14_Witness ==
    /\ engine_disposed
    /\ session = "exited"
    /\ call.op = "new_session"
    /\ call.raised = "EngineDisposedError"

\* C15: after the engine has been disposed, entering a Session obtained from
\* it before, and every operation on that session, fails with
\* EngineDisposedError.
C15_DisposedSessionRaises ==
    (engine_disposed /\ call.op \in SessionOps \cup {"__enter__"}) =>
        call.raised = "EngineDisposedError"

----------------------------------------------------------------------------
(* Claims about opening the store, checked under SpecSetup *)

Opening == setup.pc # "none"

Occurrences(events, e) == {i \in 1..Len(events) : events[i] = e}

SetupTablesCalls ==
    Occurrences(setup.events, "setup_tables ok")
        \cup Occurrences(setup.events, "setup_tables failed")

TruncateCalls ==
    Occurrences(setup.events, "truncate")
        \cup Occurrences(setup.events, "truncate failed")

FileUntouched == store = setup.pre.store /\ setup.file = setup.pre.file

\* C16: with overwrite false, a failed setup_tables raises a UsageError, the
\* file is not modified, truncate_database_file is not called and
\* setup_tables is not called again.
C16_NoOverwrite ==
    (Opening /\ ~setup.overwrite) =>
        /\ TruncateCalls = {}
        /\ Cardinality(SetupTablesCalls) <= 1
        /\ FileUntouched
        /\ Occurrences(setup.events, "setup_tables failed") # {}
               => setup.raised = "UsageError"

\* setup_tables failed on a broken file that holds items and is not to be
\* overwritten; _setup_engine has ended.
C16_Witness ==
    /\ setup.pc = "done"
    /\ ~setup.overwrite
    /\ setup.pre.file = "broken"
    /\ setup.events = <<"setup_tables failed">>
    /\ setup.raised = "UsageError"
    /\ store.items # {}

\* C17: with overwrite true, the file is truncated at most once and only
\* right after a failed setup_tables, setup_tables is called at most twice,
\* a second failure raises a UsageError and ends the recovery, and after a
\* first setup_tables that succeeds the file is never truncated.
C17_Overwrite ==
    (Opening /\ setup.overwrite) =>
        /\ Cardinality(TruncateCalls) <= 1
        /\ \A i \in TruncateCalls :
               i > 1 /\ setup.events[i - 1] = "setup_tables failed"
        /\ Cardinality(SetupTablesCalls) <= 2
        /\ Cardinality(Occurrences(setup.events, "setup_tables failed")) = 2
               => /\ setup.raised = "UsageError"
                  /\ setup.pc \in {"raised", "done", "finished"}
        /\ (setup.events # <<>> /\ setup.events[1] = "setup_tables ok")
               => (TruncateCalls = {} /\ FileUntouched)

\* The file is truncated after the first failure and setup_tables fails
\* again.
C17_Witness ==
    /\ setup.pc = "done"
    /\ setup.overwrite
    /\ setup.events = <<"setup_tables failed", "truncate", "setup_tables failed">>
    /\ setup.raised = "UsageError"
    /\ setup.pre.store # EmptyStore /\ store = EmptyStore

----------------------------------------------------------------------------
(* More claims about the run, checked under SpecRun *)

Successes == {"passed", "xpassed", "xfailed"}

Failures == {"failed", "error"}

\* The items of the store st this run has written: the earlier runs ended
\* by Max(Times).
WrittenByRun(st) == {it \in st.items : it.last_run > Max(Times)}

\* C18: _decide_result gives IGNORE for skipped, WRITE for passed, xpassed
\* and xfailed, DROP for failed and error, and IGNORE with a warning for any
\* other state; the run has warned of unexpected states only, and every item
\* a run has written to the store, under either strategy, had an outcome
\* that was classified as WRITE.
C18_DecideResult ==
    /\ \A state \in ResultStates :
        /\ state = "skipped" => decide_result(state) = "IGNORE"
        /\ state \in Successes => decide_result(state) = "WRITE"
        /\ state \in Failures => decide_result(state) = "DROP"
        /\ state \notin {"skipped"} \cup Successes \cup Failures
               => decide_result(state) = "IGNORE"
        /\ decide_result_warns(state)
               <=> state \notin {"skipped"} \cup Successes \cup Failures
    /\ warned \cap ({"skipped"} \cup Successes \cup Failures) = {}
    /\ \A it \in WrittenByRun(store) \cup WrittenByRun(lazyStore) :
           Reported("WRITE", ItemLocation(it)) # {}

\* A run that has ended after a warning: one item was written under both
\* strategies and the item whose outcome was dropped is in neither store.
C18_Witness ==
    /\ NormalExit
    /\ warned = {"rerun"}
    /\ WrittenByRun(store) # {} /\ WrittenByRun(lazyStore) # {}
    /\ \E i \in 1..Len(reports) :
        /\ reports[i].action = "DROP"
        /\ Reported("WRITE", reports[i].location) = {}
        /\ ItemsAtLocation(store, reports[i].location) = {}
        /\ ItemsAtLocation(lazyStore, reports[i].location) = {}

\* The Session calls that change the store.
MutatingOps ==
    {"add_file", "add_or_update_item", "try_delete_item", "invalidate_hash",
     "prune_files", "prune_items", "bulk_add_update_remove",
     "drop_all_entries"}

\* C19: while outcomes are processed the lazy broker opens no session, makes
\* no call on the store and leaves it as it is; after a session finish with
\* a normal exit status it has made one call that changes the store, either
\* drop_all_entries or bulk_add_update_remove.
C19_LazyOneCall ==
    /\ [](phase = "run" => ops.lazy = <<>>)
    /\ [][(phase = "run" /\ phase' = "run") => lazyStore' = lazyStore]_vars
    /\ [](NormalExit =>
            /\ Cardinality({i \in 1..Len(ops.lazy) :
                               ops.lazy[i] \in MutatingOps}) = 1
            /\ \/ /\ ops.lazy = <<"new_session", "drop_all_entries">>
                  /\ bulkCall = NoBulkCall
                  /\ lazyStore = EmptyStore
               \/ /\ ops.lazy = <<"new_session", "bulk_add_update_remove">>
                  /\ bulkCall # NoBulkCall)

\* Two outcomes were processed: the immediate broker has made a call for
\* each, the lazy broker the one bulk call at the end.
C19_Witness ==
    /\ NormalExit
    /\ Len(reports) >= 2
    /\ ops.lazy = <<"new_session", "bulk_add_update_remove">>
    /\ Len(ops.immediate) > Len(ops.lazy)
    /\ WrittenByRun(lazyStore) # {}

\* The files of st without items, which prune_files deletes.
EmptyFiles(st) == {f \in st.files : ItemsOfFile(st, f.path) = {}}

\* C20: a session finish with an exit status other than 0, 1 and 5 makes no
\* call on the store under either strategy and leaves both stores as they
\* were when it started.
C20_ErrorExit ==
    [][(phase = "run" /\ phase' = "finished" /\ exitstatus' \notin {0, 1, 5})
           => /\ store' = store
              /\ lazyStore' = lazyStore
              /\ ops' = ops
              /\ bulkCall' = NoBulkCall]_vars

\* A run that ended with an error exit status after reports: the immediate
\* store keeps a file that pruning would have deleted and the lazy store has
\* nothing of the outcomes recorded.
C20_Witness ==
    /\ phase = "finished"
    /\ exitstatus \notin {0, 1, 5}
    /\ ~config.no_pruning
    /\ EmptyFiles(store) # {}
    /\ passed_tests # <<>>
    /\ WrittenByRun(lazyStore) = {}
    /\ ops.lazy = <<>>

----------------------------------------------------------------------------
(* Claims about the engine of a run, checked under SpecSetup *)

\* C21: an engine created for a run is disposed once: when the table setup
\* raises, it is disposed by the end of _setup_engine and not again at the
\* session finish; otherwise it is not disposed before the session finish
\* and is disposed there, whether _sessionfinish returns or raises.
C21_DisposedOnce ==
    /\ setup.pc # "none" => setup.disposals <= 1
    /\ (setup.pc \in {"done", "finished"} /\ setup.created
            /\ setup.raised # "")
           => (setup.disposals = 1 /\ engine_disposed)
    /\ (setup.pc = "done" /\ setup.raised = "")
           => (setup.disposals = 0 /\ ~engine_disposed)
    /\ (setup.pc = "finished" /\ setup.created)
           => (setup.disposals = 1 /\ engine_disposed)
    /\ (setup.pc # "none" /\ ~setup.created) => setup.disposals = 0

\* The table setup succeeded and _sessionfinish raised.
C21_Witness ==
    /\ setup.pc = "finished"
    /\ setup.created
    /\ setup.raised = ""
    /\ setup.finish = "raised"
    /\ setup.disposals = 1

----------------------------------------------------------------------------
(* Claims about the soft timeout, checked under SpecTimeout *)

Processed == Len(governor.marks)

\* C22: with a timeout of 0 the first item given to the governor starts the
\* clock and is not marked skip, and the second item and every item after
\* it are marked skip.
C22_TimeoutZero ==
    governor.soft_timeout = 0 =>
        /\ Processed >= 1 =>
               (~governor.marks[1] /\ governor.start_time # NoTime)
        /\ \A i \in 2..Processed : governor.marks[i]

\* With a timeout of 0 three items were processed without the clock moving.
C22_Witness ==
    /\ governor.soft_timeout = 0
    /\ Processed >= 3
    /\ governor.clock = governor.start_time
    /\ governor.marks[2] /\ governor.marks[3]

\* The governor detected the timeout at the item d: no item before it is
\* marked skip, the item d and every item after it are.
DetectedAt(d) ==
    /\ \A i \in 1..(d - 1) : ~governor.marks[i]
    /\ \A i \in d..Processed : governor.marks[i]

\* C23: once _past_timeout is set it stays set; the item at which it was set
\* is marked skip and so is every later item; no item processed before is
\* marked skip.
C23_ExpiryMonotonic ==
    /\ [](~governor.past_timeout => \A i \in 1..Processed : ~governor.marks[i])
    /\ [](governor.past_timeout => \E d \in 1..Processed : DetectedAt(d))
    /\ [][governor.past_timeout => governor'.past_timeout]_vars
    /\ [][(~governor.past_timeout /\ governor'.past_timeout)
              => governor'.marks[Len(governor'.marks)]]_vars

\* The timeout of 3 was detected at the third item, after two items that
\* ran, and the fourth item is marked skip as well.
C23_Witness ==
    /\ governor.soft_timeout = 3
    /\ governor.past_timeout
    /\ Processed >= 4
    /\ DetectedAt(3)

\* C24: whatever the timeout, the first item given to the governor is not
\* marked skip.
C24_FirstItemRuns ==
    Processed >= 1 => ~governor.marks[1]

\* With a timeout of 0 the first item was processed after some time and is
\* not marked; the second is.
C24_Witness ==
    /\ governor.soft_timeout = 0
    /\ governor.start_time > 0
    /\ Processed >= 2
    /\ ~governor.marks[1]
    /\ governor.marks[2]

----------------------------------------------------------------------------
(* More claims about the Session operations, checked under SpecSession *)

TryDeleteItemCalled == call.op = "try_delete_item"

\* C25: try_delete_item(location) raises nothing; it returns false and
\* leaves the store as it was when the file of the location is not stored or
\* has no item at the location; otherwise it deletes the one item at the
\* location, keeps every other row and returns true; it returns true exactly
\* when an item was deleted.
C25_TryDeleteItem ==
    TryDeleteItemCalled =>
        LET loc == call.args.location
            matching == ItemsAtLocation(call.pre, loc)
        IN  /\ call.raised = ""
            /\ (FilesAt(call.pre, loc[1]) = {} \/ matching = {})
                   => (call.result = FALSE /\ store = call.pre)
            /\ (FilesAt(call.pre, loc[1]) # {} /\ matching # {})
                   => /\ Cardinality(matching) = 1
                      /\ store.items = call.pre.items \ matching
                      /\ store.files = call.pre.files
                      /\ call.result = TRUE
            /\ call.result = TRUE <=> store.items # call.pre.items

\* An item was deleted and another item of its file is still stored.
C25_Witness ==
    /\ TryDeleteItemCalled
    /\ call.result = TRUE
    /\ \E gone \in call.pre.items \ store.items :
           \E kept \in store.items : kept.file = gone.file

\* The file of the location is stored with an item, but not the item asked
\* for: nothing is deleted.
C25_WitnessNoItem ==
    /\ TryDeleteItemCalled
    /\ call.result = FALSE
    /\ ItemsOfFile(call.pre, call.args.location[1]) # {}

PruneFilesCalled == call.op = "prune_files"

\* C26: prune_files() deletes exactly the stored files that own no item,
\* returns their number and leaves every file with an item and every item as
\* they were.
C26_PruneFiles ==
    PruneFilesCalled =>
        /\ call.raised = ""
        /\ store.files = {f \in call.pre.files :
                             ItemsOfFile(call.pre, f.path) # {}}
        /\ call.result = Cardinality(call.pre.files \ store.files)
        /\ store.items = call.pre.items

\* One file without items was deleted and a file with an item is kept.
C26_Witness ==
    /\ PruneFilesCalled
    /\ call.result = 1
    /\ \E f \in store.files : ItemsOfFile(store, f.path) # {}

AddFileCalled == call.op = "add_file"

\* C27: add_file(path, hash) for a stored path raises IntegrityError and the
\* store keeps its one TestFile of that path with the hash it had; in every
\* state the Session operations reach no two TestFiles have the same path.
C27_AddFileUnique ==
    /\ (AddFileCalled /\ FilesAt(call.pre, call.args.path) # {})
           => /\ call.raised = "IntegrityError"
              /\ store = call.pre
              /\ Cardinality(FilesAt(store, call.args.path)) = 1
    /\ (AddFileCalled /\ FilesAt(call.pre, call.args.path) = {})
           => /\ call.raised = ""
              /\ FilesAt(store, call.args.path)
                     = {TestFile(call.args.path, call.args.hash)}
    /\ \A f \in store.files : \A g \in store.files : f.path = g.path => f = g

\* add_file was refused for a stored path that was given another hash.
C27_Witness ==
    /\ AddFileCalled
    /\ call.raised = "IntegrityError"
    /\ \E f \in FilesAt(store, call.args.path) : f.last_hash # call.args.hash
    /\ store.items # {}

\* C28: in every state the Session operations reach, every stored TestItem
\* belongs to a stored TestFile: no operation has removed a file and left an
\* item of it, and none has stored an item of a file that is not stored.
C28_ItemsHaveFiles ==
    /\ \A it \in store.items : FilesAt(store, it.file) # {}
    /\ call # NoCall =>
        /\ \A f \in call.pre.files :
               FilesAt(store, f.path) = {} => ItemsOfFile(store, f.path) = {}
        /\ \A it \in store.items \ call.pre.items :
               FilesAt(store, it.file) # {}

\* add_or_update_item was given a TestFile whose row had been deleted, while
\* items of another file are stored.
C28_Witness ==
    /\ call.op = "add_or_update_item"
    /\ call.raised = "DetachedInstanceError"
    /\ store.items # {}

\* A file and its items were removed in one call and other items remain.
C28_WitnessRemoved ==
    /\ call # NoCall
    /\ \E f \in call.pre.files :
        /\ FilesAt(store, f.path) = {}
        /\ ItemsOfFile(call.pre, f.path) # {}
    /\ store.items # {}

PathsOfLocations(S) == {loc[1] : loc \in S}

StoredPaths(st) == {f.path : f \in st.files}

\* The number of times the provider was called with the path during the call.
ProviderCallsFor(path) ==
    Cardinality({i \in 1..Len(call.args.provider_calls) :
                    call.args.provider_calls[i] = path})

\* C29: in a bulk_add_update_remove call with a hash_provider that returns,
\* the provider is called once for each file the call creates, however many
\* add_update locations lie in it, and the file is stored with the hash the
\* provider gave; it is not called for a file that was stored, which keeps
\* its last_hash; no file is created for a try_delete location.
C29_HashProviderOnce ==
    (BulkReturned /\ call.args.hash_provider.given) =>
        LET created == PathsOfLocations(call.args.add_update)
                           \ StoredPaths(call.pre)
        IN  /\ \A path \in Paths :
                   ProviderCallsFor(path) = IF path \in created THEN 1 ELSE 0
            /\ \A f \in store.files :
                   \/ f \in call.pre.files
                   \/ /\ f.path \in created
                      /\ f.last_hash = call.args.hash_provider.hash[f.path]
            /\ \A path \in created :
                   ItemsOfFile(store, path) # {} => FilesAt(store, path) # {}
            /\ \A f \in call.pre.files : FilesAt(store, f.path) \subseteq {f}

\* Two add_update locations lie in one file that was not stored: the provider
\* was called once, and a stored file keeps a hash the provider would not
\* have given.
C29_Witness ==
    /\ BulkReturned
    /\ call.args.hash_provider.given
    /\ Cardinality(call.args.add_update) = 2
    /\ Len(call.args.provider_calls) = 1
    /\ Cardinality(ItemsOfFile(store, call.args.provider_calls[1])) = 2
    /\ \E f \in store.files :
        /\ f \in call.pre.files
        /\ f.last_hash # call.args.hash_provider.hash[f.path]

BulkOverlap == call.args.add_update \cap call.args.try_delete

\* C30: when a location is in add_update and in try_delete of one bulk call
\* that returns, the item is added or updated first and deleted after: no
\* item is stored at the location afterwards, and the location counts once
\* in added or updated and once in removed.
C30_AddThenDelete ==
    (BulkReturned /\ BulkOverlap # {}) =>
        LET add == call.args.add_update
            del == call.args.try_delete
        IN  /\ \A loc \in BulkOverlap : ItemsAtLocation(store, loc) = {}
            /\ call.result.added + call.result.updated = Cardinality(add)
            /\ call.result.updated = Cardinality(StoredAmong(call.pre, add))
            /\ call.result.removed =
                   Cardinality(StoredAmong(call.pre, del) \cup BulkOverlap)

\* A location that was not stored is in both sets: it is counted as added
\* and as removed, next to a location that is only added.
C30_Witness ==
    /\ BulkReturned
    /\ \E loc \in BulkOverlap : ItemsAtLocation(call.pre, loc) = {}
    /\ call.result.added = 2
    /\ call.result.removed = 1
    /\ Cardinality(store.items) = Cardinality(call.pre.items) + 1

----------------------------------------------------------------------------
(* More claims about the collection, checked under SpecCollect *)

\* The stored file of the location was invalidated by this comparison: the
\* hashes are compared and the stored hash is not the current one.
Invalidated(loc) ==
    /\ config.hash_testfiles
    /\ \E f \in FilesAt(cmp.pre, loc[1]) : Stale(f)

\* C31: the comparison reports a collected item as known exactly when a file
\* with its path is stored, the comparison has not invalidated that file, and
\* an item with its location is stored; no index is reported twice, and the
\* value recorded for a known item is the time of the comparison minus the
\* item's stored last_run.
C31_KnownExactly ==
    (Collects /\ cmp.compared) =>
        /\ \A i \in 1..Len(cmp.shuffled) :
               (i - 1) \in Range(cmp.known_test_indices)
                   <=> /\ FilesAt(cmp.pre, cmp.shuffled[i][1]) # {}
                       /\ ~Invalidated(cmp.shuffled[i])
                       /\ ItemsAtLocation(cmp.pre, cmp.shuffled[i]) # {}
        /\ Cardinality(Range(cmp.known_test_indices))
               = Len(cmp.known_test_indices)
        /\ Range(cmp.known_test_indices) \subseteq 0..(Len(cmp.shuffled) - 1)
        /\ DOMAIN cmp.last_run_map = KnownItems
        /\ \A loc \in KnownItems :
               \A it \in ItemsAtLocation(cmp.pre, loc) :
                   cmp.last_run_map[loc] = cmp.now - it.last_run

\* A comparison with hashes of three items: one is known, one has a stored
\* item in a file that is invalidated, one has its file stored but no item.
C31_Witness ==
    /\ Collects /\ cmp.compared /\ config.hash_testfiles
    /\ Len(cmp.shuffled) = 3
    /\ Len(cmp.known_test_indices) = 1
    /\ \E loc \in Range(cmp.shuffled) :
           Invalidated(loc) /\ ItemsAtLocation(cmp.pre, loc) # {}
    /\ \E loc \in Range(cmp.shuffled) :
        /\ FilesAt(cmp.pre, loc[1]) # {}
        /\ ~Invalidated(loc)
        /\ ItemsAtLocation(cmp.pre, loc) = {}

\* C32: with pruning enabled, an item collected and no reset, after
\* pytest_collection_modifyitems every stored item has the location of a
\* collected item, and every item reported as known is stored as the
\* comparison left it.
C32_PrunedToCollected ==
    (Collects /\ cmp.compared /\ ~cmp.reset /\ ~config.no_pruning) =>
        /\ \A it \in store.items : ItemLocation(it) \in Range(cmp.shuffled)
        /\ \A loc \in KnownItems :
            /\ ItemsAtLocation(store, loc) # {}
            /\ ItemsAtLocation(store, loc) = ItemsAtLocation(cmp.store, loc)
        /\ store.files = cmp.store.files

\* The pruning deleted a stored item that was not collected and kept a known
\* item of the same file.
C32_Witness ==
    /\ Collects /\ cmp.compared /\ ~cmp.reset /\ ~config.no_pruning
    /\ \E gone \in cmp.store.items \ store.items :
           \E loc \in KnownItems : loc[1] = gone.file

----------------------------------------------------------------------------
(* Claims about the flags of a run, checked under SpecRun *)

\* C33: after a run with pruning enabled that ends with a normal exit status
\* no stored file is without items, under the immediate and under the lazy
\* strategy.
C33_NoEmptyFiles ==
    (NormalExit /\ ~config.no_pruning) =>
        /\ EmptyFiles(store) = {}
        /\ EmptyFiles(lazyStore) = {}

\* The session finish pruned a file under both strategies and both stores
\* still hold items: the only item of the file had failed in this run.
C33_Witness ==
    /\ NormalExit /\ ~config.no_pruning
    /\ store.items # {} /\ lazyStore.items # {}
    /\ \E i \in 1..Len(reports) :
        /\ reports[i].action = "DROP"
        /\ FilesAt(cmp.store, reports[i].location[1]) # {}
        /\ FilesAt(store, reports[i].location[1]) = {}
        /\ FilesAt(lazyStore, reports[i].location[1]) = {}

----------------------------------------------------------------------------
(* Claims about the no-pruning flag, checked under SpecNoPruning *)

\* The stored items of the store the run started from whose test was not
\* collected.
NotCollected == {it \in cmp.pre.items : ItemLocation(it) \notin Range(cmp.shuffled)}

\* The run has kept in st every file and every item of a test that was not
\* collected.
KeepsAll(st) ==
    /\ StoredPaths(cmp.pre) \subseteq StoredPaths(st)
    /\ NotCollected \subseteq st.items

InvalidatedFile(path) ==
    /\ cmp.compared
    /\ config.hash_testfiles
    /\ \E f \in FilesAt(cmp.pre, path) : Stale(f) /\ Compared(f)

\* The run has kept in st every file, and every item of a test that was not
\* collected unless the comparison invalidated its file.
KeepsAllValid(st) ==
    /\ StoredPaths(cmp.pre) \subseteq StoredPaths(st)
    /\ \A it \in NotCollected : InvalidatedFile(it.file) \/ it \in st.items

----------------------------------------------------------------------------
(* Claims about what the calls of a Session leave alone, checked under
   SpecSession *)

\* The stored rows that do not belong to the file of the path.
RowsOutside(st, path) ==
    [files |-> {f \in st.files : f.path # path},
     items |-> {it \in st.items : it.file # path}]

\* C35: invalidate_hash, prune_items and try_delete_item neither add nor
\* remove a file, also when they leave one without items; prune_items and
\* try_delete_item change no file at all and only remove items;
\* invalidate_hash and try_delete_item change no row that belongs to another
\* file than the one they are called for.  A call that has removed a file is
\* prune_files, bulk_add_update_remove with prune_files set, or
\* drop_all_entries.
C35_ItemOpsKeepFiles ==
    /\ call.op \in {"invalidate_hash", "prune_items", "try_delete_item"}
           => StoredPaths(store) = StoredPaths(call.pre)
    /\ call.op \in {"prune_items", "try_delete_item"}
           => /\ store.files = call.pre.files
              /\ store.items \subseteq call.pre.items
    /\ call.op = "invalidate_hash"
           => RowsOutside(store, call.args.file) = RowsOutside(call.pre, call.args.file)
    /\ call.op = "try_delete_item"
           => RowsOutside(store, call.args.location[1])
                  = RowsOutside(call.pre, call.args.location[1])
    /\ (call # NoCall /\ ~(StoredPaths(call.pre) \subseteq StoredPaths(store)))
           => \/ call.op \in {"prune_files", "drop_all_entries"}
              \/ call.op = "bulk_add_update_remove" /\ call.args.prune_files

\* try_delete_item has deleted the last item of a file while another file
\* with an item is stored: the emptied file is still stored.
C35_Witness ==
    /\ call.op = "try_delete_item"
    /\ call.result = TRUE
    /\ \E f \in EmptyFiles(store) :
        /\ f.path = call.args.location[1]
        /\ ItemsOfFile(call.pre, f.path) # {}
    /\ \E it \in store.items : it.file # call.args.location[1]

\* invalidate_hash has left a file without items and with a new hash.
C35_WitnessInvalidated ==
    /\ call.op = "invalidate_hash"
    /\ call.raised = ""
    /\ call.result > 0
    /\ \E f \in EmptyFiles(store) :
        /\ f.path = call.args.file
        /\ f \notin call.pre.files
    /\ \E it \in store.items : it.file # call.args.file

\* prune_items has left a file without items.
C35_WitnessPruned ==
    /\ call.op = "prune_items"
    /\ \E f \in EmptyFiles(store) : ItemsOfFile(call.pre, f.path) # {}
    /\ store.items # {}

----------------------------------------------------------------------------
(* Claims about files stored without a hash, checked under SpecCollect *)

\* The files the run found stored without a hash and with a collected item.
Unhashed == {f \in cmp.pre.files : f.last_hash = NoHash /\ Compared(f)}

\* C36: in a comparison with hashing enabled, a stored file without a hash
\* that owns a collected item is treated as changed: after the comparison
\* the store holds no item of the file, the file's last_hash is the current
\* hash, and none of its collected items is known.  With hashing disabled
\* the comparison leaves the store as it was.
C36_UnhashedInvalidated ==
    (Collects /\ cmp.compared) =>
        /\ config.hash_testfiles =>
               \A f \in Unhashed :
                   /\ ItemsOfFile(cmp.store, f.path) = {}
                   /\ FilesAt(cmp.store, f.path)
                          = {[f EXCEPT !.last_hash = hash_file(f.path)]}
                   /\ \A loc \in KnownItems : loc[1] # f.path
        /\ ~config.hash_testfiles => cmp.store = cmp.pre

\* With hashing enabled, a file stored without a hash had an item that was
\* collected, and the collected item of a file with the current hash is known.
C36_Witness ==
    /\ Collects /\ cmp.compared /\ config.hash_testfiles
    /\ \E f \in Unhashed :
           \E it \in ItemsOfFile(cmp.pre, f.path) :
               ItemLocation(it) \in Range(cmp.shuffled)
    /\ KnownItems # {}

\* With hashing disabled, a file stored without a hash and one stored with an
\* old hash had collected items, which are known.
C36_WitnessNoHashing ==
    /\ Collects /\ cmp.compared /\ ~config.hash_testfiles
    /\ \E f \in Unhashed : \E loc \in KnownItems : loc[1] = f.path
    /\ \E f \in cmp.pre.files :
        /\ f.last_hash = "h0"
        /\ \E loc \in KnownItems : loc[1] = f.path

----------------------------------------------------------------------------
(* Claims about runs without collected items, checked under SpecRun *)

\* C37: a run that collects no item deletes no stored item: collection
\* neither compares nor prunes nor resets, and session finish removes no
\* item under either strategy, whatever the flags.
C37_ZeroItemsKeepItems ==
    (Collects /\ Len(cmp.shuffled) = 0) =>
        /\ ~cmp.compared /\ ~cmp.reset /\ cmp.store = cmp.pre
        /\ cmp.pre.items \subseteq store.items
        /\ cmp.pre.items \subseteq lazyStore.items

----------------------------------------------------------------------------
(* Claims about reports after the session finish, checked under SpecRun *)

\* C38: once pytest_sessionfinish has been called, whether _sessionfinish
\* returned or raised, an outcome report is ignored: it is not classified
\* (no report is taken, no warning given), no session is opened, and neither
\* the stores nor the brokers' books of passed and failed tests change.
C38_ReportsAfterFinishIgnored ==
    [][exitstatus # NoCount =>
           UNCHANGED <<store, lazyStore, reports, warned, ops, bulkCall,
                       num_passed_tests, num_failed_tests, passed_tests,
                       failed_tests>>]_vars

\* _sessionfinish has raised after the report of a failed test.
C38_Witness ==
    /\ phase = "failed"
    /\ \E i \in 1..Len(reports) : reports[i].action = "DROP"
    /\ store.items # {}

\* _sessionfinish has returned after the report of a failed test.
C38_WitnessReturned ==
    /\ phase = "finished"
    /\ \E i \in 1..Len(reports) : reports[i].action = "DROP"
    /\ ops.immediate # <<>>
    /\ store.items # {}

----------------------------------------------------------------------------
(* Claims about the exceptions of move_idx_to_end, checked under SpecMove *)

\* C39: when move_idx_to_end raises (IndexError for a negative index or one
\* out of bounds, ValueError for a repeated index) the list src is as it was
\* before the call; an empty idx leaves src as it was and raises nothing.
C39_RaisedKeepsSrc ==
    mv.pc = "done" =>
        /\ mv.raised \in {"", "IndexError", "ValueError"}
        /\ mv.raised # "" => mv.out = mv.src
        /\ mv.idx = <<>> => (mv.raised = "" /\ mv.out = mv.src)

----------------------------------------------------------------------------
(* Claims about the saturation reset at the end of a run, checked under
   SpecRun *)

\* C40: the immediate strategy calls drop_all_entries at the end of a run
\* only when reset-on-saturation is set and every collected item was
\* recorded as passed and none of them as failed; an item recorded as passed
\* and later as failed does not count towards saturation.
C40_ImmediateSaturation ==
    "drop_all_entries" \in Range(ops.immediate) =>
        /\ config.reset_on_saturation
        /\ \A loc \in Range(items) :
            /\ Reported("WRITE", loc) # {}
            /\ Reported("DROP", loc) = {}

====
